---- MODULE Spec2Model ----
(***************************************************************************)
(* A model of academic_paper_api (doi-paper-scraper): the browser session  *)
(* lifecycle of scrapers/base.py, the per-publisher extraction of          *)
(* scrapers/acm.py and scrapers/ieee.py, and the pure helpers around them. *)
(*                                                                         *)
(* Strings the code inspects character by character (URLs, cookie          *)
(* attributes, extracted text) are sequences of one-character strings.     *)
(***************************************************************************)
EXTENDS Integers, Sequences, FiniteSets, TLC

VARIABLES
  \* ---- one scrape through the browser session (base.py, acm.py, ieee.py)
  variant,       \* "acm" | "ieee": the scraper running
  cookiesGiven,  \* cookies_file is not None
  cookieFile,    \* the cookie file on disk
  jar,           \* the browser's cookies (CDP records), a sequence
  pc,            \* position of the scrape coroutine
  err,           \* the exception in flight or raised ("none" when none)
  inScope,       \* the body of `async with self._browser_tab(...)` was entered
  curUrl,        \* the URL last read from tab.current_url
  initLogin,     \* _wait_for_login found a login wall on its first look
  elapsed,       \* _wait_for_login's elapsed
  polls,         \* iterations of its while loop so far
  loginSaves,    \* _save_cookies calls made by _wait_for_login
  reloads,       \* tab.go_to(current_url) calls made by _wait_for_login
  reloadUrl,     \* the URL the last of them went to
  exitSaves,     \* _save_cookies calls made by _browser_tab's finally
  fullHtml,      \* acm.py went to the fullHtml endpoint
  events,        \* what the scrape did, in order
  \* ---- calls of _download_image against one file system (base.py)
  files,         \* the files that exist: <<output_dir, file name>>
  imagesDir,     \* per output_dir: its images directory is "missing" | "dir" | "blocked"
  prevCall,      \* the call before the last one
  lastCall,      \* the last call of _download_image: its arguments and result
  calls,         \* calls made so far
  \* ---- one call of _build_proxied_url (base.py)
  pxTemplate,    \* proxy_template: [given, text]
  pxTarget,      \* target_url
  pxResult,      \* the value returned
  pxDone,        \* the call returned
  \* ---- one call of _convert_cookies_for_cdp (base.py)
  ckIn,          \* raw_cookies
  ckOut,         \* the list returned
  ckState,       \* "input" | "returned" | "raised"
  \* ---- extraction of one parsed page (acm.py, ieee.py)
  exVariant,     \* "acm" | "ieee": the scraper extracting
  exPage,        \* the parsed page (for ACM the landing page)
  exFtPage,      \* the parsed page of ACM's fullHtml endpoint
  exFiles,       \* the files that exist under output_dir/images
  exImagesDir,   \* output_dir/images is "missing" | "dir" | "blocked"
  exPaper,       \* the paper returned
  exState,       \* "parsed" | "returned" | "raised"
  exErr,         \* the exception raised ("none" when none)
  exFigCalls,    \* the calls of _extract_figure that returned, in order
  \* ---- a cookie file written by one session and read by the next (base.py)
  rtJar,         \* what tab.get_cookies() returns when the first session ends
  rtFile,        \* the cookie file
  rtWritten,     \* _save_cookies of the first session wrote the file
  rtLoaded,      \* the list the next session hands to tab.set_cookies
  rtState,       \* "open" | "closed" | "loaded" | "raised"
  \* ---- one call of extract_doi (doi_resolver.py)
  doiIn,         \* input_str
  doiOut,        \* the DOI returned
  doiState,      \* "input" | "returned" | "raised"
  doiAgain,      \* what extract_doi gave for the DOI it had returned
  \* ---- one call of resolve_doi (doi_resolver.py)
  rsIn,          \* input_str
  rsApi,         \* what the handle lookup of doi.org does
  rsRedirect,    \* what following the redirect of doi.org does
  rsOut,         \* the result: the ResolvedDOI returned or the exception raised
  rsState,       \* "input" | "returned" | "raised"
  \* ---- scraper selection: cli.py step 2 calling get_scraper (scrapers/__init__.py)
  gsPublisher,   \* resolved.publisher
  gsOut,         \* what get_scraper gave: the scraper returned or the error raised
  gsExit,        \* the exit code of the command (-1 while it runs)
  gsState,       \* "input" | "selected" | "exited"
  \* ---- one run of the command (cli.py main)
  cliInput,      \* doi_input
  cliStage,      \* "start" | "resolved" | "selected" | "scraped" | "exited"
  cliResolved,   \* the ResolvedDOI of step 1
  cliScraper,    \* the scraper of step 2
  cliFailed,     \* the step that raised ("none" when none did)
  cliExit,       \* the exit code of the process (-1 while it runs)
  cliBrowser,    \* a browser session was opened
  cliOutput,     \* what the run wrote under output_dir
  cliCall,       \* scraper.scrape took the call: "none" | "accepted" | "rejected"
  \* ---- rendering: markdown_builder.py paper_to_markdown
  mdPaper,       \* the Paper handed to paper_to_markdown
  mdState,       \* "ready", then "rendered"
  mdOut          \* the Markdown text paper_to_markdown returned

sessVars == <<variant, cookiesGiven, cookieFile, jar, pc, err, inScope, curUrl,
              initLogin, elapsed, polls, loginSaves, reloads, reloadUrl, exitSaves, fullHtml,
              events>>

dlVars == <<files, imagesDir, prevCall, lastCall, calls>>

pxVars == <<pxTemplate, pxTarget, pxResult, pxDone>>

ckVars == <<ckIn, ckOut, ckState>>

exVars == <<exVariant, exPage, exFtPage, exFiles, exImagesDir, exPaper, exState,
            exErr, exFigCalls>>

rtVars == <<rtJar, rtFile, rtWritten, rtLoaded, rtState>>

doiVars == <<doiIn, doiOut, doiState, doiAgain>>

rsVars == <<rsIn, rsApi, rsRedirect, rsOut, rsState>>

gsVars == <<gsPublisher, gsOut, gsExit, gsState>>

cliVars == <<cliInput, cliStage, cliResolved, cliScraper, cliFailed, cliExit,
             cliBrowser, cliOutput, cliCall>>

mdVars == <<mdPaper, mdState, mdOut>>

vars == <<sessVars, dlVars, pxVars, ckVars, exVars, rtVars, doiVars, rsVars,
          gsVars, cliVars, mdVars>>

----------------------------------------------------------------------------
(* Strings *)

\* str.startswith
StartsWith(s, p) ==
  /\ Len(p) <= Len(s)
  /\ SubSeq(s, 1, Len(p)) = p

\* `p in s`
Contains(s, p) ==
  \E i \in 1..(Len(s) - Len(p) + 1) : SubSeq(s, i, i + Len(p) - 1) = p

\* str.lower on one character
LowerChar(c) ==
  CASE c = "A" -> "a" [] c = "B" -> "b" [] c = "C" -> "c" [] c = "D" -> "d"
    [] c = "E" -> "e" [] c = "F" -> "f" [] c = "G" -> "g" [] c = "H" -> "h"
    [] c = "I" -> "i" [] c = "J" -> "j" [] c = "K" -> "k" [] c = "L" -> "l"
    [] c = "M" -> "m" [] c = "N" -> "n" [] c = "O" -> "o" [] c = "P" -> "p"
    [] c = "Q" -> "q" [] c = "R" -> "r" [] c = "S" -> "s" [] c = "T" -> "t"
    [] c = "U" -> "u" [] c = "V" -> "v" [] c = "W" -> "w" [] c = "X" -> "x"
    [] c = "Y" -> "y" [] c = "Z" -> "z"
    [] OTHER -> c

\* str.lower
Lower(s) == [i \in 1..Len(s) |-> LowerChar(s[i])]

\* the member of a set of one: The({e(x) : x \in {v}}) is e(v), v being
\* evaluated once and named x
The(S) == CHOOSE x \in S : TRUE

----------------------------------------------------------------------------
(* The login wait: base.py _wait_for_login *)

\* login_indicators' default
LoginIndicators ==
  { <<"/", "l", "o", "g", "i", "n">>,
    <<"/", "i", "d", "p", "/">>,
    <<"/", "c", "a", "s", "/">>,
    <<"s", "h", "i", "b", "b", "o", "l", "e", "t", "h">>,
    <<"a", "u", "t", "h">> }

\* any(ind in current_url.lower() for ind in login_indicators)
IsLogin(url) == \E ind \in LoginIndicators : Contains(Lower(url), ind)

max_wait == 120
poll_interval == 2

\* the loop test `while elapsed < max_wait`
LoopContinuesMutOneMore(e) == e <= max_wait
LoopContinues(e) == e < max_wait

----------------------------------------------------------------------------
(* Cookies: base.py _convert_cookies_for_cdp, _save_cookies *)

\* same_site_map.get(ss, "Lax")
SameSiteMap(ss) ==
  CASE ss = <<"n", "o", "_", "r", "e", "s", "t", "r", "i", "c", "t", "i", "o", "n">>
         -> <<"N", "o", "n", "e">>
    [] ss = <<"l", "a", "x">> -> <<"L", "a", "x">>
    [] ss = <<"s", "t", "r", "i", "c", "t">> -> <<"S", "t", "r", "i", "c", "t">>
    [] OTHER -> <<"L", "a", "x">>

Has(raw, f) == f \in DOMAIN raw

\* the keys the loop body gives `cookie` for one record `raw`
CdpKeys(raw) ==
  {"name", "value"}
    \cup (IF Has(raw, "domain") /\ raw["domain"] # "" THEN {"domain"} ELSE {})
    \cup {f \in {"path", "secure", "httpOnly"} : Has(raw, f)}
    \cup (IF Has(raw, "expirationDate") /\ raw["expirationDate"] # 0
            THEN {"expires"} ELSE {})
    \cup (IF Has(raw, "sameSite") /\ raw["sameSite"] # <<>>
            THEN {"sameSite"} ELSE {})

\* one iteration of the loop over raw_cookies
ConvertCookieMutNoLower(raw) ==
  [f \in CdpKeys(raw) |->
     CASE f = "expires" -> raw["expirationDate"]
       [] f = "sameSite" -> SameSiteMap(raw["sameSite"])
       [] OTHER -> raw[f]]
ConvertCookie(raw) ==
  [f \in CdpKeys(raw) |->
     CASE f = "expires" -> raw["expirationDate"]
       [] f = "sameSite" -> SameSiteMap(Lower(raw["sameSite"]))
       [] OTHER -> raw[f]]

\* raw["name"], raw["value"]: a KeyError when a record lacks either
ConvertRaises(raws) ==
  \E i \in 1..Len(raws) : ~({"name", "value"} \subseteq DOMAIN raws[i])

\* _convert_cookies_for_cdp, when it returns
ConvertCookiesForCdp(raws) == [i \in 1..Len(raws) |-> ConvertCookie(raws[i])]

FileAbsent == [kind |-> "absent", data |-> <<>>]
FileUnreadable == [kind |-> "unreadable", data |-> <<>>]
FileMalformed == [kind |-> "malformed", data |-> <<>>]
FileJson(list) == [kind |-> "json", data |-> list]

\* what can happen inside _save_cookies
SaveOutcomes == {"ok", "get_cookies_raises", "open_raises", "dump_raises"}

\* _save_cookies: the cookie file after the call. Every exception is caught;
\* open(..., "w") truncates the file before json.dump writes it.
SaveCookies(j, file, out) ==
  CASE out = "get_cookies_raises" -> file
    [] j = <<>> -> file
    [] out = "open_raises" -> file
    [] out = "dump_raises" -> FileMalformed
    [] OTHER -> FileJson(j)

----------------------------------------------------------------------------
(* Image download: base.py _download_image *)

\* url.split("?")[0]
RECURSIVE BeforeQuery(_)
BeforeQuery(s) ==
  IF s = <<>> \/ Head(s) = "?" THEN <<>> ELSE <<Head(s)>> \o BeforeQuery(Tail(s))

\* the last component of a path: what follows its last "/"
RECURSIVE BaseName(_)
BaseName(s) ==
  IF \E i \in 1..Len(s) : s[i] = "/"
    THEN BaseName(Tail(s))
    ELSE s

\* PurePath.suffix: from the last "." of the name, unless the name starts or
\* ends with it
Suffix(s) ==
  LET name == BaseName(s)
      dots == {i \in 1..Len(name) : name[i] = "."}
      last == CHOOSE i \in dots : \A j \in dots : j <= i
  IN  IF dots = {} \/ last = 1 \/ last = Len(name)
        THEN <<>>
        ELSE SubSeq(name, last, Len(name))

\* ext = Path(url.split("?")[0]).suffix or ".png"
Ext(url) ==
  IF Suffix(BeforeQuery(url)) = <<>>
    THEN <<".", "p", "n", "g">>
    ELSE Suffix(BeforeQuery(url))

\* filename = f"fig_{md5(url)[:12]}{ext}". The digest is kept as the URL it
\* is the digest of: equal URLs give equal names, different URLs different ones.
FileName(url) == [hash |-> url, ext |-> Ext(url)]

EmptyPath == <<>>
\* f"images/{filename}"
RelPath(url) == <<"images", FileName(url)>>

\* dest.exists()
DestExistsMutNever(fs, dir, url) == FALSE
DestExists(fs, dir, url) == <<dir, FileName(url)>> \in fs

\* what the in-page fetch and the write of its result can do
FetchOutcomes ==
  { "data",            \* base64 data came back, was decoded and written
    "script_raises",   \* tab.execute_script raised (fetch failed, HTTP error)
    "no_data",         \* the response carries no "value"
    "bad_base64",      \* base64.b64decode raised
    "open_fails",      \* dest.write_bytes could not create the file
    "write_fails" }    \* dest.write_bytes created the file and failed writing it

\* _download_image(tab, url, output_dir): what it returns or raises and what it
\* leaves on disk. fs: the files; dstate: the state of output_dir/images;
\* hasTab: `tab` is truthy; out: the outcome of the fetch, if one is made.
DownloadImage(fs, dstate, hasTab, url, dir, out) ==
  LET done(ret, raised, fetched, fs2, d2) ==
        [ret |-> ret, raised |-> raised, fetched |-> fetched, files |-> fs2,
         imagesDir |-> d2]
  IN
  IF url = <<>> \/ StartsWith(url, <<"d", "a", "t", "a", ":">>)
    THEN done(EmptyPath, FALSE, FALSE, fs, dstate)
  ELSE IF dstate = "blocked"
    THEN \* images_dir.mkdir(parents=True, exist_ok=True) raises, outside any try
         done(EmptyPath, TRUE, FALSE, fs, dstate)
  ELSE IF DestExists(fs, dir, url)
    THEN done(RelPath(url), FALSE, FALSE, fs, "dir")
  ELSE IF ~hasTab
    THEN done(EmptyPath, FALSE, FALSE, fs, "dir")
  ELSE IF out = "data"
    THEN done(RelPath(url), FALSE, TRUE, fs \cup {<<dir, FileName(url)>>}, "dir")
  ELSE IF out = "write_fails"
    THEN done(EmptyPath, FALSE, TRUE, fs \cup {<<dir, FileName(url)>>}, "dir")
  ELSE done(EmptyPath, FALSE, TRUE, fs, "dir")

----------------------------------------------------------------------------
(* Proxy rewriting: base.py _build_proxied_url *)

Letters ==
  {"a", "b", "c", "d", "e", "f", "g", "h", "i", "j", "k", "l", "m", "n", "o",
   "p", "q", "r", "s", "t", "u", "v", "w", "x", "y", "z"}
Digits == {"0", "1", "2", "3", "4", "5", "6", "7", "8", "9"}

\* the position of the first element of s that is in set cs, or Len(s) + 1
FirstOf(s, cs) ==
  LET hits == {i \in 1..Len(s) : s[i] \in cs}
  IN  IF hits = {} THEN Len(s) + 1 ELSE CHOOSE i \in hits : \A j \in hits : i <= j

\* the position of the last element of s that is in set cs, or 0
LastOf(s, cs) ==
  LET hits == {i \in 1..Len(s) : s[i] \in cs}
  IN  IF hits = {} THEN 0 ELSE CHOOSE i \in hits : \A j \in hits : j <= i

\* s[i:] of Python, for a 1-based first position
From(s, i) == SubSeq(s, i, Len(s))

\* the scheme of a URL and what follows its colon: the scheme is what precedes
\* the first ":" when that starts with a letter and holds only letters,
\* digits and "+-."
SplitScheme(url) ==
  LET colon == FirstOf(url, {":"})
      hasScheme == /\ colon <= Len(url)
                   /\ colon > 1
                   /\ url[1] \in Letters
                   /\ \A i \in 1..(colon - 1) :
                        url[i] \in Letters \cup Digits \cup {"+", "-", "."}
  IN  IF hasScheme
        THEN [scheme |-> SubSeq(url, 1, colon - 1), rest |-> From(url, colon + 1)]
        ELSE [scheme |-> <<>>, rest |-> url]

\* the netloc: what follows a leading "//" up to the first of "/?#"
SplitNetloc(s) ==
  LET afterSlashes == From(s, 3)
      netEnd == FirstOf(afterSlashes, {"/", "?", "#"})
  IN  IF StartsWith(s, <<"/", "/">>)
        THEN [netloc |-> SubSeq(afterSlashes, 1, netEnd - 1),
              rest |-> From(afterSlashes, netEnd)]
        ELSE [netloc |-> <<>>, rest |-> s]

\* the fragment after the first "#", the query after the first "?" before it
SplitPath(rest) ==
  LET hash == FirstOf(rest, {"#"})
      beforeFragment == SubSeq(rest, 1, hash - 1)
      quest == FirstOf(beforeFragment, {"?"})
  IN  [path |-> SubSeq(beforeFragment, 1, quest - 1),
       query |-> From(beforeFragment, quest + 1),
       fragment |-> From(rest, hash + 1)]

\* urllib.parse.urlparse(url), for a URL without ";" parameters
UrlParse(url) ==
  The({ The({ The({ [scheme |-> a.scheme, netloc |-> b.netloc, path |-> c.path,
                     query |-> c.query, fragment |-> c.fragment]
                    : c \in {SplitPath(b.rest)} })
              : b \in {SplitNetloc(a.rest)} })
        : a \in {SplitScheme(url)} })

\* the two hexadecimal digits of the characters the model's URLs use that
\* urllib.parse.quote escapes
HexOf(c) ==
  CASE c = ":" -> <<"3", "A">> [] c = "/" -> <<"2", "F">> [] c = "?" -> <<"3", "F">>
    [] c = "#" -> <<"2", "3">> [] c = "%" -> <<"2", "5">> [] c = "@" -> <<"4", "0">>
    [] c = "=" -> <<"3", "D">> [] OTHER -> <<"2", "0">>

\* the concatenation of the sequences f[lo], ..., f[hi]
RECURSIVE ConcatRange(_, _, _)
ConcatRange(f, lo, hi) ==
  IF lo > hi THEN <<>>
  ELSE IF lo = hi THEN f[lo]
  ELSE LET mid == (lo + hi) \div 2
       IN  ConcatRange(f, lo, mid) \o ConcatRange(f, mid + 1, hi)

\* "".join(pieces)
Concat(pieces) == ConcatRange(pieces, 1, Len(pieces))

\* urllib.parse.quote(s, safe=""): letters, digits and "_.-~" stay
Quote(s) ==
  Concat([i \in 1..Len(s) |->
            IF s[i] \in Letters \cup Digits \cup {"_", ".", "-", "~"}
              THEN <<s[i]>>
              ELSE <<"%">> \o HexOf(s[i])])

\* old occurs in s at position i
MatchAt(s, i, old) ==
  /\ i >= 1
  /\ i + Len(old) - 1 <= Len(s)
  /\ SubSeq(s, i, i + Len(old) - 1) = old

\* str.replace(old, new) for an old that cannot overlap itself ("%u", "%h",
\* "%p"): every occurrence is replaced, the other characters are kept
Replace(s, old, new) ==
  Concat([i \in 1..Len(s) |->
            IF MatchAt(s, i, old) THEN new
            ELSE IF \E j \in (i - Len(old) + 1)..(i - 1) : MatchAt(s, j, old)
              THEN <<>>
              ELSE <<s[i]>>])

\* str.lstrip("/")
RECURSIVE LStripSlash(_)
LStripSlash(s) ==
  IF s # <<>> /\ Head(s) = "/" THEN LStripSlash(Tail(s)) ELSE s

\* the text that replaces %h
ProxyHostHostname(parsed) ==
  LET at == LastOf(parsed.netloc, {"@"})
      hostport == From(parsed.netloc, at + 1)
      colon == FirstOf(hostport, {":"})
  IN  SubSeq(hostport, 1, colon - 1)
ProxyHost(parsed) == parsed.netloc

\* the text that replaces %p: path + query + fragment
ProxyPath(parsed) ==
  LStripSlash(parsed.path)
    \o (IF parsed.query # <<>> THEN <<"?">> \o parsed.query ELSE <<>>)
    \o (IF parsed.fragment # <<>> THEN <<"#">> \o parsed.fragment ELSE <<>>)

HttpPrefix == <<"h", "t", "t", "p", ":", "/", "/">>
HttpsPrefix == <<"h", "t", "t", "p", "s", ":", "/", "/">>

\* res.startswith(("http://", "https://")) or the https:// prefix
EnsureSchemeMutNever(res) == res
EnsureScheme(res) ==
  IF StartsWith(res, HttpPrefix) \/ StartsWith(res, HttpsPrefix)
    THEN res
    ELSE HttpsPrefix \o res

\* _build_proxied_url(proxy_template, target_url)
BuildProxiedUrl(template, target) ==
  IF ~template.given \/ template.text = <<>>
    THEN target
    ELSE
      The({ The({ The({ EnsureScheme(Replace(r2, <<"%", "p">>, ProxyPath(parsed)))
                        : r2 \in {Replace(r1, <<"%", "h">>, ProxyHost(parsed))} })
                  : r1 \in {Replace(template.text, <<"%", "u">>, Quote(target))} })
            : parsed \in {UrlParse(target)} })

----------------------------------------------------------------------------
(* The parsed page: scrapling Selector elements as acm.py and ieee.py use them *)

\* an attribute the element does not carry
Absent == <<"<absent>">>

\* element.attrib.get(name, "")
Get(v) == IF v = Absent THEN <<>> ELSE v

\* the characters \s matches in the model's texts
Whitespace == {" ", "\n", "\t"}

\* _clean_text: re.sub(r"\s+", " ", text).strip(), "" for a falsy text
CleanText(text) ==
  LET collapsed ==
        Concat([i \in 1..Len(text) |->
                  IF text[i] \notin Whitespace THEN <<text[i]>>
                  ELSE IF i > 1 /\ text[i - 1] \in Whitespace THEN <<>>
                  ELSE <<" ">>])
      first == IF collapsed # <<>> /\ collapsed[1] = " " THEN 2 ELSE 1
      last == IF collapsed # <<>> /\ collapsed[Len(collapsed)] = " "
                THEN Len(collapsed) - 1
                ELSE Len(collapsed)
  IN  SubSeq(collapsed, first, last)

\* str.endswith
EndsWith(s, suffix) ==
  /\ Len(suffix) <= Len(s)
  /\ SubSeq(s, Len(s) - Len(suffix) + 1, Len(s)) = suffix

\* sep.join(parts)
Join(parts, sep) ==
  Concat([i \in 1..Len(parts) |-> IF i = 1 THEN parts[i] ELSE sep \o parts[i]])

\* the elements of the subtree of n in document order, n first, each with its
\* ancestors inside the subtree
RECURSIVE Walk(_, _)
Walk(n, anc) ==
  <<[node |-> n, anc |-> anc]>>
    \o Concat([i \in 1..Len(n.kids) |-> Walk(n.kids[i], Append(anc, n))])

\* element.css(selector): the selector is evaluated on the descendant-or-self
\* axis, a selector list gives the union of its matches, in document order
Css(ctx, Matches(_)) ==
  LET hits == SelectSeq(Walk(ctx, <<>>), Matches)
  IN  [i \in 1..Len(hits) |-> hits[i].node]

\* the CSS class selector .c: c is one of the class attribute's tokens
HasClass(n, c) ==
  Contains(<<" ">> \o Get(n.class) \o <<" ">>, <<" ">> \o c \o <<" ">>)

\* the descendant combinator: an ancestor inside the context matches P
Inside(e, P(_)) == \E i \in 1..Len(e.anc) : P(e.anc[i])

TagH2 == <<"h", "2">>
TagH3 == <<"h", "3">>
TagH4 == <<"h", "4">>
TagP == <<"p">>
TagDiv == <<"d", "i", "v">>
TagSection == <<"s", "e", "c", "t", "i", "o", "n">>
TagFigure == <<"f", "i", "g", "u", "r", "e">>
TagFigcaption == <<"f", "i", "g", "c", "a", "p", "t", "i", "o", "n">>
TagImg == <<"i", "m", "g">>
TagSpan == <<"s", "p", "a", "n">>
TagA == <<"a">>
TagLi == <<"l", "i">>
TagUl == <<"u", "l">>

\* the CSS attribute selector [class*="part"]
ClassContains(n, part) == Contains(Get(n.class), part)

\* two nested descendant combinators: an ancestor matching P has below it an
\* ancestor matching Q
InsideTwo(e, P(_), Q(_)) ==
  \E i \in 1..Len(e.anc) : \E j \in (i + 1)..Len(e.anc) : P(e.anc[i]) /\ Q(e.anc[j])

\* the elements of s without those that repeat an earlier one
Unique(s) ==
  Concat([i \in 1..Len(s) |->
            IF \E j \in 1..(i - 1) : s[j] = s[i] THEN <<>> ELSE <<s[i]>>])

\* the cleaned texts of the elements that have a text
CleanTexts(els) ==
  The({ [i \in 1..Len(withText) |-> CleanText(withText[i].text)]
        : withText \in {SelectSeq(els, LAMBDA el : el.text # <<>>)} })

\* the texts of a list that are not empty
NonEmpty(texts) == SelectSeq(texts, LAMBDA t : t # <<>>)

\* tag in ("h2", "h3", "h4")
IsHeadingTag(tag) == tag \in {TagH2, TagH3, TagH4}

\* int(c) of a decimal digit
IntOf(c) ==
  CASE c = "0" -> 0 [] c = "1" -> 1 [] c = "2" -> 2 [] c = "3" -> 3 [] c = "4" -> 4
    [] c = "5" -> 5 [] c = "6" -> 6 [] c = "7" -> 7 [] c = "8" -> 8 [] c = "9" -> 9

\* what int(tag[1]) raises: IndexError for a one-character tag, ValueError when
\* the second character is no digit, nothing otherwise
IntError(tag) ==
  IF Len(tag) < 2 THEN "IndexError"
  ELSE IF tag[2] \notin Digits THEN "ValueError"
  ELSE "none"

\* urllib.parse.urljoin(base, url) for a reference that is a URL with a scheme,
\* an absolute path, or a relative path without dot segments
UrlJoin(base, url) ==
  LET root(b) == b.scheme \o <<":", "/", "/">> \o b.netloc
      dir(b) == SubSeq(b.path, 1, LastOf(b.path, {"/"}))
  IN  IF SplitScheme(url).scheme # <<>> THEN url
      ELSE The({ IF StartsWith(url, <<"/">>) THEN root(b) \o url
                 ELSE root(b) \o (IF dir(b) = <<>> THEN <<"/">> ELSE dir(b)) \o url
                 : b \in {UrlParse(base)} })

\* _make_absolute_url(base, relative)
MakeAbsoluteUrl(base, relative) ==
  IF relative = <<>> THEN <<>>
  ELSE IF StartsWith(relative, <<"/", "/">>) THEN <<"h", "t", "t", "p", "s", ":">> \o relative
  ELSE IF StartsWith(relative, HttpPrefix) \/ StartsWith(relative, HttpsPrefix)
    THEN relative
  ELSE UrlJoin(base, relative)

----------------------------------------------------------------------------
(* The document model: models.py Section and Figure *)

\* a str block of Section.content
TextBlock(text) ==
  [kind |-> "text", text |-> text, url |-> <<>>, local_path |-> EmptyPath,
   caption |-> <<>>, figure_id |-> <<>>]

\* Figure(url=..., local_path=..., caption=..., figure_id=...)
Figure(url, local_path, caption, figure_id) ==
  [kind |-> "figure", text |-> <<>>, url |-> url, local_path |-> local_path,
   caption |-> caption, figure_id |-> figure_id]

\* the None _extract_figure returns
NoFigure ==
  [kind |-> "none", text |-> <<>>, url |-> <<>>, local_path |-> EmptyPath,
   caption |-> <<>>, figure_id |-> <<>>]

\* Section(heading=..., level=..., content=...)
Section(heading, level, content) ==
  [heading |-> heading, level |-> level, content |-> content]

\* a value together with the environment the call leaves
Ret(val, env) == [val |-> val, env |-> env]

\* the exception leaves the call
Raise(env, e) == Ret(<<>>, [env EXCEPT !.err = e])

\* the outcome of the next in-page fetch of the run: what outs says, a failure
\* once outs is used up
OutcomeAt(env) ==
  IF env.n < Len(env.outs) THEN env.outs[env.n + 1] ELSE "script_raises"

\* await self._download_image(tab, abs_url, output_dir, referer=base_url) with
\* the scrape's tab, against the run's file system
Download(env, url) ==
  The({ Ret(r.ret,
            [env EXCEPT !.files = r.files,
                        !.imagesDir = r.imagesDir,
                        !.n = IF r.fetched THEN @ + 1 ELSE @,
                        !.err = IF r.raised THEN "OSError" ELSE @])
        : r \in {DownloadImage(env.files, env.imagesDir, TRUE, url, "out",
                               OutcomeAt(env))} })

\* the call of _extract_figure on element returned fig
Logged(env, element, fig) ==
  [env EXCEPT !.figCalls = Append(@, [element |-> element, fig |-> fig])]

\* `if not src`
NotSrcMutNever(src) == FALSE
NotSrc(src) == src = <<>>

\* `if not paper.sections and paper.abstract`
FallbackAppliesMutAlways(sections, abstract) == abstract # <<>>
FallbackApplies(sections, abstract) == sections = <<>> /\ abstract # <<>>

\* the sections _scrape_async returns for what section discovery found
WithFallback(sections, abstract) ==
  IF FallbackApplies(sections, abstract)
    THEN <<Section(<<"A", "b", "s", "t", "r", "a", "c", "t">>, 2, <<TextBlock(abstract)>>)>>
    ELSE sections

\* Paper as far as extraction fills it; discovered: what _extract_sections gave
Paper(authors, abstract, keywords, discovered) ==
  [authors |-> authors, abstract |-> abstract, keywords |-> keywords,
   discovered |-> discovered, sections |-> WithFallback(discovered, abstract)]

\* the end of _extract_figure once src is known: None for no src, else the
\* Figure of the absolute URL and of what the download returned
FigureOf(element, src, base_url, caption, fig_id, env) ==
  IF NotSrc(src) THEN Ret(NoFigure, Logged(env, element, NoFigure))
  ELSE
    The({ The({ IF d.env.err # "none" THEN Ret(NoFigure, d.env)
                ELSE Ret(Figure(abs_url, d.val, caption, fig_id),
                         Logged(d.env, element,
                                Figure(abs_url, d.val, caption, fig_id)))
                : d \in {Download(env, abs_url)} })
          : abs_url \in {MakeAbsoluteUrl(base_url, src)} })

\* section.content.append(block)
WithBlock(section, block) == [section EXCEPT !.content = Append(@, block)]

----------------------------------------------------------------------------
(* IEEE extraction: ieee.py *)

\* the abstract: the first element, selector by selector, whose cleaned text
\* is longer than 20 characters and does not end with "abstract:"
IeeeAbstract(page) ==
  LET cands ==
           Css(page, LAMBDA e : e.node.tag = TagDiv /\ "xplmathjax" \in e.node.flags)
        \o Css(page, LAMBDA e : /\ e.node.tag = TagDiv
                                /\ Inside(e, LAMBDA a : HasClass(a, <<"a", "b", "s", "t", "r", "a", "c", "t", "-", "t", "e", "x", "t">>)))
        \o Css(page, LAMBDA e : HasClass(e.node, <<"a", "b", "s", "t", "r", "a", "c", "t", "-", "t", "e", "x", "t">>))
        \o Css(page, LAMBDA e : /\ e.node.tag = TagP
                                /\ Inside(e, LAMBDA a : Get(a.id) = <<"a", "b", "s", "t", "r", "a", "c", "t", "S", "e", "c", "t", "i", "o", "n">>))
      accepted(el) ==
        \E text \in {CleanText(el.text)} :
          /\ text # <<>>
          /\ Len(text) > 20
          /\ ~EndsWith(Lower(text), <<"a", "b", "s", "t", "r", "a", "c", "t", ":">>)
  IN  The({ IF ok = <<>> THEN <<>> ELSE CleanText(ok[1].text)
            : ok \in {SelectSeq(cands, accepted)} })

\* IEEEScraper._extract_figure
IeeeExtractFigure(element, base_url, env) ==
  LET imgs == Css(element, LAMBDA e : e.node.tag = TagImg)
      img == imgs[1]
      captions ==
        Css(element, LAMBDA e : \/ e.node.tag = TagFigcaption
                                \/ HasClass(e.node, <<"f", "i", "g", "c", "a", "p", "t", "i", "o", "n">>)
                                \/ HasClass(e.node, <<"f", "i", "g", "-", "c", "a", "p", "t", "i", "o", "n">>)
                                \/ HasClass(e.node, <<"c", "a", "p", "t", "i", "o", "n">>))
      caption == IF captions = <<>> THEN <<>> ELSE CleanText(captions[1].text)
  IN  IF imgs = <<>> THEN Ret(NoFigure, Logged(env, element, NoFigure))
      ELSE The({ The({ FigureOf(element, src, base_url, cap, Get(element.id), env)
                       : cap \in {caption} })
                 : src \in {IF Get(img.src) # <<>> THEN Get(img.src)
                                                   ELSE Get(img.dataSrc)} })

\* one turn of the loop of _extract_from_section over section_el.children;
\* st: the Section being filled and the environment
IeeeSectionChild(child, base_url, st) ==
  IF IsHeadingTag(child.tag) THEN st
  ELSE IF child.tag = TagP
    THEN The({ IF text # <<>>
                 THEN [st EXCEPT !.current = WithBlock(@, TextBlock(text))]
                 ELSE st
               : text \in {CleanText(child.text)} })
  ELSE IF child.tag \in {TagFigure, TagDiv}
    THEN The({ [current |-> IF f.val.kind = "figure"
                              THEN WithBlock(st.current, f.val)
                              ELSE st.current,
                env |-> f.env]
               : f \in {IeeeExtractFigure(child, base_url, st.env)} })
  ELSE st

\* the loop of _extract_from_section over section_el.children, from child i on
RECURSIVE IeeeSectionChildren(_, _, _, _)
IeeeSectionChildren(kids, i, base_url, st) ==
  IF i > Len(kids) \/ st.env.err # "none" THEN st
  ELSE IeeeSectionChildren(kids, i + 1, base_url,
                           The({ IeeeSectionChild(kids[i], base_url, s) : s \in {st} }))

\* IEEEScraper._extract_from_section
IeeeExtractFromSection(section_el, base_url, env) ==
  LET headings ==
        Css(section_el, LAMBDA e : \/ IsHeadingTag(e.node.tag)
                                   \/ HasClass(e.node, <<"s", "e", "c", "t", "i", "o", "n", "-", "t", "i", "t", "l", "e">>))
      filled(heading_el) ==
        IF StartsWith(heading_el.tag, <<"h">>) /\ IntError(heading_el.tag) # "none"
          THEN Raise(env, IntError(heading_el.tag))
        ELSE
          The({ IF st.env.err # "none" THEN Ret(<<>>, st.env)
                ELSE Ret(<<st.current>>, st.env)
                : st \in {IeeeSectionChildren(
                            section_el.kids, 1, base_url,
                            [current |-> Section(CleanText(heading_el.text),
                                                 IF StartsWith(heading_el.tag, <<"h">>)
                                                   THEN IntOf(heading_el.tag[2])
                                                   ELSE 2,
                                                 <<>>),
                             env |-> env])} })
      unheaded ==
        The({ IF st.env.err # "none" THEN Ret(<<>>, st.env)
              ELSE Ret(<<st.current>>, st.env)
              : st \in {IeeeSectionChildren(section_el.kids, 1, base_url,
                                            [current |-> Section(<<>>, 2, <<>>),
                                             env |-> env])} })
  IN  The({ IF hs = <<>> THEN unheaded ELSE filled(hs[1]) : hs \in {headings} })

\* the loop of _extract_sections over section_els when the page has no body
RECURSIVE IeeeSectionEls(_, _, _, _)
IeeeSectionEls(els, i, base_url, st) ==
  IF i > Len(els) \/ st.env.err # "none" THEN st
  ELSE IeeeSectionEls(els, i + 1, base_url,
                      The({ Ret(st.val \o sub.val, sub.env)
                            : sub \in {IeeeExtractFromSection(els[i], base_url, st.env)} }))

\* one turn of the loop of _extract_sections over content_els; st: the sections
\* so far, current_section as its position in them (0 for None) and the
\* environment
IeeeContentEl(el, base_url, st) ==
  IF IsHeadingTag(el.tag)
    THEN The({ IF heading # <<>>
                 THEN [st EXCEPT !.sections = Append(@, Section(heading, IntOf(el.tag[2]), <<>>)),
                                 !.cur = Len(st.sections) + 1]
                 ELSE st
               : heading \in {CleanText(el.text)} })
  ELSE IF el.tag = TagP
    THEN The({ IF text = <<>> THEN st
               ELSE IF st.cur # 0
                 THEN [st EXCEPT !.sections[st.cur] = WithBlock(@, TextBlock(text))]
               ELSE [st EXCEPT !.sections = Append(@, Section(<<>>, 2, <<TextBlock(text)>>)),
                               !.cur = Len(st.sections) + 1]
               : text \in {CleanText(el.text)} })
  ELSE IF el.tag = TagFigure
    THEN The({ IF f.val.kind # "figure" THEN [st EXCEPT !.env = f.env]
               ELSE IF st.cur # 0
                 THEN [st EXCEPT !.sections[st.cur] = WithBlock(@, f.val),
                                 !.env = f.env]
               ELSE IF st.sections # <<>>
                 THEN [st EXCEPT !.sections[Len(st.sections)] = WithBlock(@, f.val),
                                 !.env = f.env]
               ELSE [st EXCEPT !.env = f.env]
               : f \in {IeeeExtractFigure(el, base_url, st.env)} })
  ELSE IF el.tag = TagDiv /\ Contains(Get(el.class), <<"s", "e", "c", "t", "i", "o", "n">>)
    THEN The({ [st EXCEPT !.sections = @ \o sub.val, !.env = sub.env]
               : sub \in {IeeeExtractFromSection(el, base_url, st.env)} })
  ELSE st

\* the loop of _extract_sections over content_els, from element i on
RECURSIVE IeeeContentEls(_, _, _, _)
IeeeContentEls(els, i, base_url, st) ==
  IF i > Len(els) \/ st.env.err # "none" THEN st
  ELSE IeeeContentEls(els, i + 1, base_url,
                      The({ IeeeContentEl(els[i], base_url, s) : s \in {st} }))

\* IEEEScraper._extract_sections
IeeeExtractSections(page, base_url, env) ==
  LET bodies ==
        Css(page, LAMBDA e : \/ HasClass(e.node, <<"a", "r", "t", "i", "c", "l", "e", "-", "b", "o", "d", "y">>)
                             \/ HasClass(e.node, <<"d", "o", "c", "u", "m", "e", "n", "t", "-", "t", "e", "x", "t">>)
                             \/ Get(e.node.id) = <<"a", "r", "t", "i", "c", "l", "e">>
                             \/ HasClass(e.node, <<"s", "e", "c", "t", "i", "o", "n", "-", "b", "o", "d", "y">>))
      section_els ==
        Css(page, LAMBDA e : \/ e.node.tag = TagDiv /\ HasClass(e.node, <<"s", "e", "c", "t", "i", "o", "n">>)
                             \/ HasClass(e.node, <<"d", "o", "c", "u", "m", "e", "n", "t", "-", "s", "e", "c", "t", "i", "o", "n">>)
                             \/ e.node.tag = TagSection /\ e.node.id # Absent)
      content_els(body) ==
        Css(body, LAMBDA e : \/ IsHeadingTag(e.node.tag)
                             \/ e.node.tag = TagP
                             \/ e.node.tag = TagFigure
                             \/ e.node.tag = TagDiv /\ HasClass(e.node, <<"s", "e", "c", "t", "i", "o", "n">>))
  IN  The({ IF found = <<>>
              THEN The({ IeeeSectionEls(els, 1, base_url, Ret(<<>>, env))
                         : els \in {section_els} })
              ELSE The({ Ret(walked.sections, walked.env)
                         : walked \in
                             { The({ IeeeContentEls(els, 1, base_url,
                                                    [sections |-> <<>>, cur |-> 0,
                                                     env |-> env])
                                     : els \in {content_els(found[1])} }) } })
            : found \in {bodies} })

\* the URL the IEEE page was read from (nav_url)
IeeeUrl == <<"h", "t", "t", "p", "s", ":", "/", "/", "i", "e", "e", "e", "x", "p", "l", "o", "r", "e", ".", "i", "e", "e", "e", ".", "o", "r", "g", "/", "d", "o", "c", "u", "m", "e", "n", "t", "/", "1">>

\* the elements the authors selector matches, in document order
IeeeAuthorEls(page) ==
  Css(page, LAMBDA e :
        /\ e.node.tag = TagSpan
        /\ \/ /\ HasClass(e.node, <<"a", "u", "t", "h", "o", "r", "-", "n", "a", "m", "e">>)
              /\ Inside(e, LAMBDA a : HasClass(a, <<"a", "u", "t", "h", "o", "r", "s", "-", "i", "n", "f", "o">>))
           \/ InsideTwo(e, LAMBDA a : ClassContains(a, <<"a", "u", "t", "h", "o", "r">>),
                            LAMBDA a : a.tag = TagA)
           \/ InsideTwo(e, LAMBDA a : HasClass(a, <<"a", "u", "t", "h", "o", "r", "s", "-", "c", "o", "n", "t", "a", "i", "n", "e", "r">>),
                            LAMBDA a : HasClass(a, <<"a", "u", "t", "h", "o", "r", "-", "c", "a", "r", "d">>)))

\* paper.authors: the cleaned texts, the empty ones and the repeated ones
\* dropped
IeeeAuthors(page) == Unique(NonEmpty(CleanTexts(IeeeAuthorEls(page))))

\* the elements the keywords selector matches, in document order
IeeeKeywordEls(page) ==
  Css(page, LAMBDA e :
        \/ /\ e.node.tag = TagA
           /\ \/ InsideTwo(e, LAMBDA a : HasClass(a, <<"s", "t", "a", "t", "s", "-", "k", "e", "y", "w", "o", "r", "d", "s", "-", "c", "o", "n", "t", "a", "i", "n", "e", "r">>),
                               LAMBDA a : HasClass(a, <<"k", "e", "y", "w", "o", "r", "d">>))
              \/ Inside(e, LAMBDA a : ClassContains(a, <<"k", "e", "y", "w", "o", "r", "d">>))
        \/ /\ e.node.tag = TagLi
           /\ Inside(e, LAMBDA a : HasClass(a, <<"d", "o", "c", "-", "k", "e", "y", "w", "o", "r", "d", "s", "-", "l", "i", "s", "t">>)))

\* paper.keywords: list(dict.fromkeys(...)) of the cleaned texts
IeeeKeywords(page) == Unique(CleanTexts(IeeeKeywordEls(page)))

\* IEEEScraper._scrape_async from the parsed page on
IeeeScrape(page, env) ==
  The({ [paper |-> Paper(IeeeAuthors(page), IeeeAbstract(page), IeeeKeywords(page),
                         found.val),
         env |-> found.env]
        : found \in {IeeeExtractSections(page, IeeeUrl, env)} })

----------------------------------------------------------------------------
(* ACM extraction: acm.py *)

\* the abstract: the cleaned texts of the paragraphs of #summary-abstract
\* that have a text, joined by one space
AcmAbstract(page) ==
  LET abs_paras(holder) ==
        Css(holder, LAMBDA e : /\ e.node.tag = TagDiv
                               /\ Get(e.node.role) = <<"p", "a", "r", "a", "g", "r", "a", "p", "h">>)
      joined(paras) ==
        Join([i \in 1..Len(paras) |-> CleanText(paras[i].text)], <<" ">>)
  IN  The({ IF holders = <<>> THEN <<>>
            ELSE The({ joined(withText)
                       : withText \in {SelectSeq(abs_paras(holders[1]),
                                                 LAMBDA p : p.text # <<>>)} })
            : holders \in {Css(page, LAMBDA e : Get(e.node.id) = <<"s", "u", "m", "m", "a", "r", "y", "-", "a", "b", "s", "t", "r", "a", "c", "t">>)} })

\* ACMScraper._extract_list
AcmExtractList(list_el) ==
  LET items == Css(list_el, LAMBDA e : /\ e.node.tag = TagDiv
                                       /\ Get(e.node.role) = <<"l", "i", "s", "t", "i", "t", "e", "m">>)
      content_els(item) ==
        Css(item, LAMBDA e : /\ e.node.tag = TagDiv
                             /\ Get(e.node.role) = <<"p", "a", "r", "a", "g", "r", "a", "p", "h">>
                             /\ Inside(e, LAMBDA a : HasClass(a, <<"c", "o", "n", "t", "e", "n", "t">>)))
      line(item) ==
        The({ IF found = <<>> THEN <<>>
              ELSE The({ IF text = <<>> THEN <<>> ELSE <<"-", " ">> \o text
                         : text \in {CleanText(found[1].text)} })
              : found \in {content_els(item)} })
  IN  The({ Join(SelectSeq([i \in 1..Len(its) |-> line(its[i])],
                           LAMBDA l : l # <<>>),
                 <<"\n">>)
            : its \in {items} })

\* ACMScraper._extract_figure
AcmExtractFigure(element, base_url, env) ==
  LET isFigure(a) == a.tag = TagFigure
      isGraphic(a) == a.tag = TagFigure /\ HasClass(a, <<"g", "r", "a", "p", "h", "i", "c">>)
      imgs == Css(element, LAMBDA e : /\ e.node.tag = TagImg
                                      /\ \/ Inside(e, isGraphic)
                                         \/ Inside(e, isFigure)
                                         \/ TRUE)
      img == imgs[1]
      isFigcaption(a) == a.tag = TagFigcaption
      captions ==
        Css(element, LAMBDA e : \/ /\ e.node.tag = TagDiv
                                   /\ Get(e.node.role) = <<"p", "a", "r", "a", "g", "r", "a", "p", "h">>
                                   /\ Inside(e, isFigcaption)
                                \/ e.node.tag = TagFigcaption)
      fig_els == Css(element, LAMBDA e : e.node.tag = TagFigure /\ e.node.id # Absent)
      fig_id == IF fig_els = <<>> THEN <<>> ELSE Get(fig_els[1].id)
      labels == Css(element, LAMBDA e : HasClass(e.node, <<"c", "o", "r", "e", "-", "l", "a", "b", "e", "l">>))
      labelled(label, text) ==
        IF label # <<>> /\ text # <<>> THEN label \o <<" ">> \o text
        ELSE IF label # <<>> THEN label
        ELSE text
      caption ==
        The({ labelled(label, text)
              : <<label, text>> \in
                  {<<IF labels = <<>> THEN <<>> ELSE CleanText(labels[1].text),
                     IF captions = <<>> THEN <<>> ELSE CleanText(captions[1].text)>>} })
  IN  IF imgs = <<>> THEN Ret(NoFigure, Logged(env, element, NoFigure))
      ELSE The({ The({ FigureOf(element, src, base_url, cap[1], cap[2], env)
                       : cap \in {<<caption, fig_id>>} })
                 : src \in {IF Get(img.viewerSrc) # <<>> THEN Get(img.viewerSrc)
                                                         ELSE Get(img.src)} })

\* one turn of the loop of _extract_single_section over sec_el.children
AcmSectionChild(child, base_url, st) ==
  IF IsHeadingTag(child.tag) THEN st
  ELSE IF child.tag = TagDiv
    THEN IF Get(child.role) = <<"p", "a", "r", "a", "g", "r", "a", "p", "h">>
           THEN The({ IF text # <<>>
                        THEN [st EXCEPT !.current = WithBlock(@, TextBlock(text))]
                        ELSE st
                      : text \in {CleanText(child.text)} })
         ELSE IF \/ Get(child.role) = <<"l", "i", "s", "t">>
                 \/ Contains(Get(child.dataType), <<"b", "u", "l", "l", "e", "t">>)
           THEN The({ IF list_text # <<>>
                        THEN [st EXCEPT !.current = WithBlock(@, TextBlock(list_text))]
                        ELSE st
                      : list_text \in {AcmExtractList(child)} })
         ELSE IF Contains(Get(child.class), <<"f", "i", "g", "u", "r", "e", "-", "w", "r", "a", "p">>)
           THEN The({ [current |-> IF f.val.kind = "figure"
                                     THEN WithBlock(st.current, f.val)
                                     ELSE st.current,
                       env |-> f.env]
                      : f \in {AcmExtractFigure(child, base_url, st.env)} })
         ELSE st
  ELSE st

\* the loop of _extract_single_section over sec_el.children, from child i on
RECURSIVE AcmSectionChildren(_, _, _, _)
AcmSectionChildren(kids, i, base_url, st) ==
  IF i > Len(kids) \/ st.env.err # "none" THEN st
  ELSE AcmSectionChildren(kids, i + 1, base_url,
                          The({ AcmSectionChild(kids[i], base_url, s) : s \in {st} }))

\* ACMScraper._extract_single_section: the Section as a list of one, the empty
\* list for None
AcmExtractSingleSection(sec_el, base_url, env) ==
  LET filled(heading_text, tag) ==
        IF tag # <<>> /\ tag[1] = "h" /\ IntError(tag) # "none"
          THEN Raise(env, IntError(tag))
        ELSE
          The({ IF st.env.err # "none" THEN Ret(<<>>, st.env)
                ELSE IF st.current.content # <<>> \/ heading_text # <<>>
                  THEN Ret(<<st.current>>, st.env)
                ELSE Ret(<<>>, st.env)
                : st \in {AcmSectionChildren(
                            sec_el.kids, 1, base_url,
                            [current |-> Section(heading_text,
                                                 IF tag # <<>> /\ tag[1] = "h"
                                                   THEN IntOf(tag[2])
                                                   ELSE 2,
                                                 <<>>),
                             env |-> env])} })
  IN  The({ IF headings = <<>> THEN Ret(<<>>, env)
            ELSE The({ filled(heading_text, headings[1].tag)
                       : heading_text \in {CleanText(headings[1].text)} })
            : headings \in {Css(sec_el, LAMBDA e : IsHeadingTag(e.node.tag))} })

\* the loop of _extract_sections over top_sections
RECURSIVE AcmTopSections(_, _, _, _)
AcmTopSections(els, i, base_url, st) ==
  IF i > Len(els) \/ st.env.err # "none" THEN st
  ELSE AcmTopSections(els, i + 1, base_url,
                      The({ Ret(st.val \o extracted.val, extracted.env)
                            : extracted \in
                                {AcmExtractSingleSection(els[i], base_url, st.env)} }))

\* one turn of the loop of _extract_flat over body_el.children; st: the
\* sections so far, `current` being the last of them once there is one
AcmFlatChild(child, base_url, st) ==
  IF IsHeadingTag(child.tag)
    THEN Ret(Append(st.val, Section(CleanText(child.text), IntOf(child.tag[2]), <<>>)),
             st.env)
  ELSE IF child.tag = TagDiv
    THEN IF Get(child.role) = <<"p", "a", "r", "a", "g", "r", "a", "p", "h">> /\ st.val # <<>>
           THEN The({ IF text # <<>>
                        THEN [st EXCEPT !.val[Len(st.val)] = WithBlock(@, TextBlock(text))]
                        ELSE st
                      : text \in {CleanText(child.text)} })
         ELSE IF Contains(Get(child.class), <<"f", "i", "g", "u", "r", "e", "-", "w", "r", "a", "p">>) /\ st.val # <<>>
           THEN The({ IF f.val.kind = "figure"
                        THEN Ret([st.val EXCEPT ![Len(st.val)] = WithBlock(@, f.val)],
                                 f.env)
                        ELSE Ret(st.val, f.env)
                      : f \in {AcmExtractFigure(child, base_url, st.env)} })
         ELSE st
  ELSE st

\* the loop of _extract_flat over body_el.children, from child i on
RECURSIVE AcmFlatChildren(_, _, _, _)
AcmFlatChildren(kids, i, base_url, st) ==
  IF i > Len(kids) \/ st.env.err # "none" THEN st
  ELSE AcmFlatChildren(kids, i + 1, base_url,
                       The({ AcmFlatChild(kids[i], base_url, s) : s \in {st} }))

\* ACMScraper._extract_flat
AcmExtractFlat(body_el, base_url, env) ==
  AcmFlatChildren(body_el.kids, 1, base_url, Ret(<<>>, env))

\* ACMScraper._extract_sections
AcmExtractSections(body_el, base_url, env) ==
  The({ IF top_sections # <<>>
          THEN AcmTopSections(top_sections, 1, base_url, Ret(<<>>, env))
          ELSE AcmExtractFlat(body_el, base_url, env)
        : top_sections \in
            {Css(body_el, LAMBDA e : e.node.tag = TagSection /\ e.node.id # Absent)} })

\* landing_url and fulltext_url
AcmLandingUrl == <<"h", "t", "t", "p", "s", ":", "/", "/", "d", "l", ".", "a", "c", "m", ".", "o", "r", "g", "/", "d", "o", "i", "/", "1", "0", ".", "1", "/", "x">>
AcmFulltextUrl == <<"h", "t", "t", "p", "s", ":", "/", "/", "d", "l", ".", "a", "c", "m", ".", "o", "r", "g", "/", "d", "o", "i", "/", "f", "u", "l", "l", "H", "t", "m", "l", "/", "1", "0", ".", "1", "/", "x">>

\* the body the ACM scraper extracts from, with the URL of its page: the
\* landing page's, else the fullHtml page's, else none
AcmBody(page, ft_page) ==
  LET bodies == Css(page, LAMBDA e : /\ e.node.tag = TagSection
                                     /\ Get(e.node.id) = <<"b", "o", "d", "y", "m", "a", "t", "t", "e", "r">>)
      ft_bodies ==
        Css(ft_page, LAMBDA e : \/ HasClass(e.node, <<"a", "r", "t", "i", "c", "l", "e", "_", "_", "b", "o", "d", "y">>)
                                \/ HasClass(e.node, <<"h", "l", "F", "l", "d", "-", "F", "u", "l", "l", "t", "e", "x", "t">>)
                                \/ /\ e.node.tag = TagSection
                                   /\ Get(e.node.id) = <<"b", "o", "d", "y", "m", "a", "t", "t", "e", "r">>)
  IN  The({ IF found # <<>> THEN <<[el |-> found[1], url |-> AcmLandingUrl]>>
            ELSE The({ IF ft # <<>> THEN <<[el |-> ft[1], url |-> AcmFulltextUrl]>>
                       ELSE <<>>
                       : ft \in {ft_bodies} })
            : found \in {bodies} })

\* the names the authors loop builds, one per author span that has a given
\* and a family name element
AcmAuthorNames(page) ==
  LET given(span) == Css(span, LAMBDA e : /\ e.node.tag = TagSpan
                                          /\ Get(e.node.property) = <<"g", "i", "v", "e", "n", "N", "a", "m", "e">>)
      family(span) == Css(span, LAMBDA e : /\ e.node.tag = TagSpan
                                           /\ Get(e.node.property) = <<"f", "a", "m", "i", "l", "y", "N", "a", "m", "e">>)
      name(span) ==
        The({ The({ IF g = <<>> \/ f = <<>> THEN <<>>
                    ELSE <<CleanText(g[1].text) \o <<" ">> \o CleanText(f[1].text)>>
                    : f \in {family(span)} })
              : g \in {given(span)} })
  IN  The({ Concat([i \in 1..Len(spans) |-> name(spans[i])])
            : spans \in {Css(page, LAMBDA e : /\ e.node.tag = TagSpan
                                               /\ Get(e.node.property) = <<"a", "u", "t", "h", "o", "r">>
                                               /\ Get(e.node.typeof) = <<"P", "e", "r", "s", "o", "n">>)} })

\* paper.authors: `if name and name not in seen_authors`
AcmAuthors(page) == Unique(NonEmpty(AcmAuthorNames(page)))

\* paper.keywords: the cleaned texts of the links of #sec-terms that are not
\* empty
AcmKeywords(page) ==
  The({ IF holders = <<>> THEN <<>>
        ELSE NonEmpty(CleanTexts(Css(holders[1], LAMBDA e : e.node.tag = TagA)))
        : holders \in {Css(page, LAMBDA e : Get(e.node.id) = <<"s", "e", "c", "-", "t", "e", "r", "m", "s">>)} })

\* ACMScraper._scrape_async from the parsed landing page on; ft_page: the page
\* the fullHtml endpoint gives
AcmScrape(page, ft_page, env) ==
  The({ The({ [paper |-> Paper(AcmAuthors(page), AcmAbstract(page), AcmKeywords(page),
                               found.val),
               env |-> found.env]
              : found \in {IF body = <<>> THEN Ret(<<>>, env)
                           ELSE AcmExtractSections(body[1].el, body[1].url, env)} })
        : body \in {AcmBody(page, ft_page)} })

----------------------------------------------------------------------------
(* Inputs of the download calls, and the resting state of each part *)

UrlEmpty == <<>>
UrlData == <<"d", "a", "t", "a", ":", "x">>
UrlPng == <<"/", "a", ".", "j", "p", "g">>
UrlPngQuery == <<"/", "a", ".", "j", "p", "g", "?", "v">>
UrlNoExt == <<"/", "b", ".", "c", "/", "f">>
ImageUrls == {UrlEmpty, UrlData, UrlPng, UrlPngQuery, UrlNoExt}

OutputDirs == {"out", "out2"}

NoCall == [url |-> <<>>, dir |-> "", hasTab |-> FALSE, out |-> "",
           ret |-> EmptyPath, raised |-> FALSE, fetched |-> FALSE, made |-> FALSE]

\* proxy templates (--proxy) and target URLs
TemplateQurl == <<"h", "t", "t", "p", "s", ":", "/", "/", "p", "r", "o", "x", "y", ".", "e", "d", "u", "/", "l", "o", "g", "i", "n", "?", "q", "u", "r", "l", "=", "%", "u">>
TemplateHostPath == <<"h", "t", "t", "p", "s", ":", "/", "/", "%", "h", ".", "p", "r", "o", "x", "y", ".", "e", "d", "u", "/", "%", "p">>
TemplateNoScheme == <<"%", "h", ".", "p", "x", ".", "e", "d", "u", "/", "%", "p">>
TemplateUnknown == <<"h", "t", "t", "p", ":", "/", "/", "p", "x", ".", "e", "d", "u", "/", "%", "x", "?", "u", "=", "%", "u", "&", "h", "=", "%", "h">>
TemplateTwice == <<"p", "x", ".", "e", "d", "u", "/", "%", "p", "?", "%", "p">>
TemplatePlain == <<"h", "t", "t", "p", "s", ":", "/", "/", "p", "x", ".", "e", "d", "u", "/">>
ProxyTemplates ==
  { [given |-> FALSE, text |-> <<>>], [given |-> TRUE, text |-> <<>>] }
    \cup {[given |-> TRUE, text |-> t] : t \in {TemplateQurl, TemplateHostPath, TemplateNoScheme, TemplateUnknown, TemplateTwice, TemplatePlain}}

TargetAcm == <<"h", "t", "t", "p", "s", ":", "/", "/", "d", "l", ".", "a", "c", "m", ".", "o", "r", "g", "/", "d", "o", "i", "/", "1", "0", ".", "1", "/", "x">>
TargetPort == <<"h", "t", "t", "p", "s", ":", "/", "/", "h", ".", "o", "r", "g", ":", "8", "0", "8", "0", "/", "a", "?", "q", "=", "1", "#", "f">>
TargetUser == <<"h", "t", "t", "p", "s", ":", "/", "/", "u", "@", "h", ".", "o", "r", "g", "/", "a">>
TargetBare == <<"h", "t", "t", "p", ":", "/", "/", "h", ".", "o", "r", "g">>
TargetQuery == <<"h", "t", "t", "p", "s", ":", "/", "/", "h", ".", "o", "r", "g", "/", "d", "o", "c", "/", "7", "?", "a", "r", "n", "u", "m", "b", "e", "r", "=", "7">>
TargetDeep == <<"h", "t", "t", "p", "s", ":", "/", "/", "h", ".", "o", "r", "g", "/", "/", "a", "/", "b", "#", "s">>
TargetHttp == <<"h", "t", "t", "p", ":", "/", "/", "i", "e", "e", "e", "x", "p", "l", "o", "r", "e", ".", "i", "e", "e", "e", ".", "o", "r", "g", "/", "d", "o", "c", "u", "m", "e", "n", "t", "/", "1">>
TargetUrls == {TargetAcm, TargetPort, TargetUser, TargetBare, TargetQuery, TargetDeep, TargetHttp}

\* records of a browser-extension cookie export
RawLax ==
  [name |-> "sid", value |-> "1", domain |-> ".ieee.org", path |-> "/",
   secure |-> TRUE, httpOnly |-> FALSE, expirationDate |-> 1700,
   sameSite |-> <<"l", "a", "x">>, hostOnly |-> FALSE]
RawBare == [name |-> "pref", value |-> "x"]
RawNoName == [value |-> "1", domain |-> ".ieee.org"]

\* the cookie the publisher or the proxy sets once a login went through
SessionCookie ==
  [name |-> "ezproxy", value |-> "tok", domain |-> ".gmu.edu", path |-> "/",
   sameSite |-> <<"N", "o", "n", "e">>]

\* sameSite values of a cookie export; SsAbsent stands for a record without the key
SsLower == <<"l", "a", "x">>
SsTitle == <<"L", "a", "x">>
SsUpper == <<"L", "A", "X">>
SsNoRestriction == <<"n", "o", "_", "r", "e", "s", "t", "r", "i", "c", "t", "i", "o", "n">>
SsNoRestrictionUpper == <<"N", "O", "_", "R", "E", "S", "T", "R", "I", "C", "T", "I", "O", "N">>
SsStrict == <<"s", "t", "r", "i", "c", "t">>
SsStrictTitle == <<"S", "t", "r", "i", "c", "t">>
SsNone == <<"N", "o", "n", "e">>
SsUnspecified == <<"u", "n", "s", "p", "e", "c", "i", "f", "i", "e", "d">>
SsEmpty == <<>>
SsAbsent == <<"<absent>">>
SameSiteValues ==
  {SsAbsent, SsEmpty, SsLower, SsTitle, SsUpper, SsNoRestriction, SsNoRestrictionUpper,
   SsStrict, SsStrictTitle, SsNone, SsUnspecified}

\* a raw cookie record with the given name, sameSite and expirationDate
\* (-1: no expirationDate key)
MakeRaw(n, sameSite, exp) ==
  [f \in {"name", "value", "path"}
           \cup (IF sameSite # SsAbsent THEN {"sameSite"} ELSE {})
           \cup (IF exp # -1 THEN {"expirationDate"} ELSE {}) |->
     CASE f = "name" -> n
       [] f = "value" -> "v"
       [] f = "path" -> "/"
       [] f = "sameSite" -> sameSite
       [] f = "expirationDate" -> exp]

\* the records a cookie file can hold
RawCookies ==
  {MakeRaw("sid", v, 1700) : v \in SameSiteValues}
    \cup {MakeRaw("sid", SsLower, e) : e \in {-1, 0}}
    \cup {MakeRaw("pref", v, -1) : v \in {SsAbsent, SsUpper, SsStrictTitle}}
    \cup {RawLax, RawNoName}

\* the most records of one cookie file
MaxCookies == 2

RECURSIVE SeqsUpTo(_, _)
\* the sequences over set S of length at most n
SeqsUpTo(S, n) ==
  IF n = 0 THEN {<<>>}
  ELSE LET shorter == SeqsUpTo(S, n - 1)
       IN  shorter \cup {Append(q, x) : q \in shorter, x \in S}

\* ---- the pages extraction runs on

\* an element: its tag, the attributes the scrapers look at, its own text and
\* its child elements
Node(tag, class, id, role, text, kids) ==
  [tag |-> tag, class |-> class, id |-> id, role |-> role, dataType |-> Absent,
   src |-> Absent, dataSrc |-> Absent, viewerSrc |-> Absent, flags |-> {},
   property |-> Absent, typeof |-> Absent, text |-> text, kids |-> kids]

\* <img src=... data-src=... data-viewer-src=...>
Img(src, dataSrc, viewerSrc) ==
  [Node(TagImg, Absent, Absent, Absent, <<>>, <<>>)
     EXCEPT !.src = src, !.dataSrc = dataSrc, !.viewerSrc = viewerSrc]

ElHeading == Node(TagH2, Absent, Absent, Absent, <<" ", "I", "n", "t", "r", "o", "\n">>, <<>>)
ElP == Node(TagP, Absent, Absent, Absent, <<"a", " ", " ", "b">>, <<>>)
ElBlankP == Node(TagP, Absent, Absent, Absent, <<" ", "\n">>, <<>>)
ElPara == Node(TagDiv, Absent, Absent, <<"p", "a", "r", "a", "g", "r", "a", "p", "h">>, <<"p", "a", "r">>, <<>>)
ElBlankPara == Node(TagDiv, Absent, Absent, <<"p", "a", "r", "a", "g", "r", "a", "p", "h">>, <<"\t">>, <<>>)
ElCaption == Node(TagFigcaption, Absent, Absent, Absent, <<"c", "a", "p">>, <<>>)
ElFigure ==
  Node(TagFigure, Absent, <<"f", "1">>, Absent, <<>>,
       <<Img(<<"/", "a", ".", "j", "p", "g">>, Absent, Absent), ElCaption>>)
ElFigureNoImg == Node(TagFigure, Absent, Absent, Absent, <<>>, <<ElCaption>>)
ElFigureLazy ==
  Node(TagFigure, Absent, Absent, Absent, <<>>, <<Img(Absent, <<"f", ".", "p", "n", "g">>, Absent)>>)
ElFigureNoSrc ==
  Node(TagFigure, Absent, Absent, Absent, <<>>, <<Img(Absent, Absent, Absent)>>)
ElFigureWrap ==
  Node(TagDiv, <<"f", "i", "g", "u", "r", "e", "-", "w", "r", "a", "p">>, Absent, Absent, <<>>,
       <<Node(TagFigure, <<"g", "r", "a", "p", "h", "i", "c">>, <<"f", "2">>, Absent, <<>>,
              <<Img(<<"t", ".", "g", "i", "f">>, Absent, <<"/", "/", "c", ".", "i", "o", "/", "v", ".", "p", "n", "g">>), ElCaption>>)>>)
ElFigureWrapNoImg == Node(TagDiv, <<"f", "i", "g", "u", "r", "e", "-", "w", "r", "a", "p">>, Absent, Absent, <<>>, <<ElFigureNoImg>>)
ElFigureWrapLazy == Node(TagDiv, <<"f", "i", "g", "u", "r", "e", "-", "w", "r", "a", "p">>, Absent, Absent, <<>>, <<ElFigureLazy>>)
ElList ==
  Node(TagDiv, Absent, Absent, <<"l", "i", "s", "t">>, <<>>,
       <<Node(TagDiv, Absent, Absent, <<"l", "i", "s", "t", "i", "t", "e", "m">>, <<>>,
              <<Node(TagDiv, <<"c", "o", "n", "t", "e", "n", "t">>, Absent, Absent, <<>>,
                     <<Node(TagDiv, Absent, Absent, <<"p", "a", "r", "a", "g", "r", "a", "p", "h">>, <<"i", "t">>, <<>>)>>)>>)>>)
ElSection ==
  Node(TagDiv, <<"s", "e", "c", "t", "i", "o", "n">>, Absent, Absent, <<>>,
       <<Node(TagH3, Absent, Absent, Absent, <<"S", "e", "c">>, <<>>), ElP, ElBlankP, ElFigure>>)
ElSectionHeader ==
  Node(TagDiv, <<"s", "e", "c", "t", "i", "o", "n">>, Absent, Absent, <<>>,
       <<Node(<<"h", "e", "a", "d", "e", "r">>, <<"s", "e", "c", "t", "i", "o", "n", "-", "t", "i", "t", "l", "e">>, Absent, Absent, <<"H", "d">>, <<>>), ElP>>)
ElSectionSpan ==
  Node(TagDiv, <<"s", "u", "b", " ", "s", "e", "c", "t", "i", "o", "n">>, Absent, Absent, <<>>,
       <<Node(<<"s", "p", "a", "n">>, <<"s", "e", "c", "t", "i", "o", "n", "-", "t", "i", "t", "l", "e">>, Absent, Absent, <<"S", "p">>, <<>>),
         ElFigureLazy, ElFigureNoSrc, ElFigureNoImg>>)
ElAcmSection ==
  Node(TagSection, Absent, <<"s", "1">>, Absent, <<>>,
       <<Node(TagH2, Absent, Absent, Absent, <<"A", "c", "m">>, <<>>), ElPara, ElBlankPara,
         ElList, ElFigureWrap, ElFigureWrapLazy>>)
ElAcmSectionBare == Node(TagSection, Absent, <<"s", "2">>, Absent, <<>>, <<ElPara>>)

\* what the body of an IEEE article is made of
IeeeBodyElements ==
  {ElHeading, ElP, ElFigure, ElSection, ElSectionHeader, ElSectionSpan,
   ElAcmSection}

\* what the body of an ACM article is made of
AcmBodyElements ==
  {ElHeading, ElPara, ElP, ElFigureWrap, ElFigureWrapNoImg, ElAcmSection,
   ElAcmSectionBare}

\* the most elements the body of a page has
MaxBodyKids == 2

IeeeBodies == SeqsUpTo(IeeeBodyElements, MaxBodyKids)
AcmBodies == SeqsUpTo(AcmBodyElements, MaxBodyKids)

\* the root of a parsed page
Html(kids) == Node(<<"h", "t", "m", "l">>, Absent, Absent, Absent, <<>>, kids)

EmptyPage == Html(<<>>)

\* the abstract of an IEEE page: none, one too short to be taken, a real one
IeeeAbstracts ==
  { <<>>,
    <<Node(TagDiv, <<"a", "b", "s", "t", "r", "a", "c", "t", "-", "t", "e", "x", "t">>, Absent, Absent, <<"A", "b", "s", "t", "r", "a", "c", "t", ":">>,
           <<Node(TagDiv, Absent, Absent, Absent, <<"T", "o", "o", " ", "s", "h", "o", "r", "t", ".">>, <<>>)>>)>>,
    <<Node(TagDiv, <<"a", "b", "s", "t", "r", "a", "c", "t", "-", "t", "e", "x", "t">>, Absent, Absent, <<"A", "b", "s", "t", "r", "a", "c", "t", ":">>,
           <<Node(TagDiv, Absent, Absent, Absent, <<"W", "e", " ", "s", "c", "r", "a", "p", "e", " ", " ", "t", "h", "e", " ", "p", "a", "p", "e", "r", "s", ".">>, <<>>)>>)>> }

\* the abstract of an ACM page: none, one paragraph, two paragraphs of blanks
AcmAbstracts ==
  { <<>>,
    <<Node(TagDiv, Absent, <<"s", "u", "m", "m", "a", "r", "y", "-", "a", "b", "s", "t", "r", "a", "c", "t">>, Absent, <<>>,
           <<Node(TagDiv, Absent, Absent, <<"p", "a", "r", "a", "g", "r", "a", "p", "h">>, <<" ", "S", "u", "m", ".", " ">>, <<>>)>>)>>,
    <<Node(TagDiv, Absent, <<"s", "u", "m", "m", "a", "r", "y", "-", "a", "b", "s", "t", "r", "a", "c", "t">>, Absent, <<>>,
           <<Node(TagDiv, Absent, Absent, <<"p", "a", "r", "a", "g", "r", "a", "p", "h">>, <<" ">>, <<>>),
             Node(TagDiv, Absent, Absent, <<"p", "a", "r", "a", "g", "r", "a", "p", "h">>, <<"\n">>, <<>>)>>)>> }

\* the pages the IEEE scraper reads: the body inside .article-body, or its
\* elements directly in the page
IeeeInputs ==
  { [variant |-> "ieee", page |-> Html(a \o <<Node(TagDiv, <<"a", "r", "t", "i", "c", "l", "e", "-", "b", "o", "d", "y">>, Absent, Absent, <<>>, b)>>),
     ft_page |-> EmptyPage] : a \in IeeeAbstracts, b \in IeeeBodies }
  \cup
  { [variant |-> "ieee", page |-> Html(a \o b), ft_page |-> EmptyPage] :
      a \in IeeeAbstracts, b \in IeeeBodies }

\* ---- the markup of authors and keywords

\* <div class="authors-info"><span class="author-name">text</span></div>
ElAuthor(text) ==
  Node(TagDiv, <<"a", "u", "t", "h", "o", "r", "s", "-", "i", "n", "f", "o">>, Absent, Absent, <<>>,
       <<Node(TagSpan, <<"a", "u", "t", "h", "o", "r", "-", "n", "a", "m", "e">>, Absent, Absent, text, <<>>)>>)

\* <div class="authors-info"><a><span>text</span></a></div>
ElAuthorLinked(text) ==
  Node(TagDiv, <<"a", "u", "t", "h", "o", "r", "s", "-", "i", "n", "f", "o">>, Absent, Absent, <<>>,
       <<Node(TagA, Absent, Absent, Absent, <<>>,
              <<Node(TagSpan, Absent, Absent, Absent, text, <<>>)>>)>>)

\* <ul class="doc-keywords-list"><li>text</li>...</ul>
ElKeywordList(texts) ==
  Node(TagUl, <<"d", "o", "c", "-", "k", "e", "y", "w", "o", "r", "d", "s", "-", "l", "i", "s", "t">>, Absent, Absent, <<>>,
       [i \in 1..Len(texts) |-> Node(TagLi, Absent, Absent, Absent, texts[i], <<>>)])

\* <ul class="doc-keywords-list"><li>(line break)<a>text</a></li></ul>
ElKeywordLinked(text) ==
  Node(TagUl, <<"d", "o", "c", "-", "k", "e", "y", "w", "o", "r", "d", "s", "-", "l", "i", "s", "t">>, Absent, Absent, <<>>,
       <<Node(TagLi, Absent, Absent, Absent, <<"\n", " ">>,
              <<Node(TagA, Absent, Absent, Absent, text, <<>>)>>)>>)

\* what the head of an IEEE page is made of
IeeeHeadElements ==
  {ElAuthor(<<"A", "n", "n", " ", " ", "L", "e", "e">>), ElAuthorLinked(<<"A", "n", "n", " ", "L", "e", "e">>), ElAuthor(<<"B", "o", "b">>),
   ElAuthor(<<" ">>), ElKeywordList(<<<<"M", "L">>, <<"A", "I">>, <<" ", "M", "L", " ">>>>),
   ElKeywordLinked(<<"A", "I">>)}

\* <span property=... >text</span>
ElProperty(property, text) ==
  [Node(TagSpan, Absent, Absent, Absent, text, <<>>) EXCEPT !.property = property]

\* <span property="author" typeof="Person">kids</span>
ElPerson(kids) ==
  [Node(TagSpan, Absent, Absent, Absent, <<>>, kids)
     EXCEPT !.property = <<"a", "u", "t", "h", "o", "r">>, !.typeof = <<"P", "e", "r", "s", "o", "n">>]

ElPersonNamed(given, family) ==
  ElPerson(<<ElProperty(<<"g", "i", "v", "e", "n", "N", "a", "m", "e">>, given), ElProperty(<<"f", "a", "m", "i", "l", "y", "N", "a", "m", "e">>, family)>>)

\* <section id="sec-terms"><a>text</a>...</section>
ElTerms(texts) ==
  Node(TagSection, Absent, <<"s", "e", "c", "-", "t", "e", "r", "m", "s">>, Absent, <<>>,
       [i \in 1..Len(texts) |-> Node(TagA, Absent, Absent, Absent, texts[i], <<>>)])

\* what the head of an ACM page is made of
AcmHeadElements ==
  {ElPersonNamed(<<"A", "n", "n">>, <<"L", "e", "e">>), ElPersonNamed(<<" ", "A", "n", "n", " ">>, <<"L", "e", "e">>),
   ElPersonNamed(<<"B", "o">>, <<>>), ElPersonNamed(<<" ">>, <<"\n">>),
   ElPerson(<<ElProperty(<<"g", "i", "v", "e", "n", "N", "a", "m", "e">>, <<"C", "y">>)>>),
   ElTerms(<<<<"H", "C", "I">>, <<" ">>, <<"A", "I">>>>), ElTerms(<<<<"H", "C", "I">>, <<" ", "H", "C", "I">>>>)}

\* the most elements the head of a page has
MaxHeadKids == 2

IeeeHeads == SeqsUpTo(IeeeHeadElements, MaxHeadKids) \ {<<>>}
AcmHeads == SeqsUpTo(AcmHeadElements, MaxHeadKids) \ {<<>>}

\* pages with authors and keywords, an abstract and no body
IeeeHeadInputs ==
  { [variant |-> "ieee", page |-> Html(h \o a), ft_page |-> EmptyPage] :
      h \in IeeeHeads, a \in IeeeAbstracts }

AcmHeadInputs ==
  { [variant |-> "acm", page |-> Html(h \o a), ft_page |-> EmptyPage] :
      h \in AcmHeads, a \in AcmAbstracts }

\* the pages the ACM scraper reads: the body in section#bodymatter of the
\* landing page, or in .article__body of the fullHtml page, or in neither
AcmInputs ==
  { [variant |-> "acm", page |-> Html(a \o <<Node(TagSection, Absent, <<"b", "o", "d", "y", "m", "a", "t", "t", "e", "r">>, Absent, <<>>, b)>>),
     ft_page |-> EmptyPage] : a \in AcmAbstracts, b \in AcmBodies }
  \cup
  { [variant |-> "acm", page |-> Html(a),
     ft_page |-> Html(<<Node(TagDiv, <<"a", "r", "t", "i", "c", "l", "e", "_", "_", "b", "o", "d", "y">>, Absent, Absent, <<>>, b)>>)] :
      a \in AcmAbstracts, b \in AcmBodies }
  \cup
  { [variant |-> "acm", page |-> Html(a), ft_page |-> EmptyPage] : a \in AcmAbstracts }

\* the paper before extraction filled it
NoPaper ==
  [authors |-> <<>>, abstract |-> <<>>, keywords |-> <<>>, discovered |-> <<>>,
   sections |-> <<>>]

\* the extraction variables in a run that extracts nothing
ExIdle ==
  /\ exVariant = "ieee"
  /\ exPage = EmptyPage
  /\ exFtPage = EmptyPage
  /\ exFiles = {}
  /\ exImagesDir = "missing"
  /\ exPaper = NoPaper
  /\ exState = "idle"
  /\ exErr = "none"
  /\ exFigCalls = <<>>

\* the round-trip variables in a run that hands no cookie file on
RtIdle ==
  /\ rtJar = <<>>
  /\ rtFile = FileAbsent
  /\ rtWritten = FALSE
  /\ rtLoaded = <<>>
  /\ rtState = "idle"

\* the extract_doi variables in a run that makes no separate call of it
DoiIdle ==
  /\ doiIn = <<>>
  /\ doiOut = <<>>
  /\ doiState = "idle"
  /\ doiAgain = <<>>

\* the resolve_doi variables in a run that makes no separate call of it
RsIdle ==
  /\ rsIn = <<>>
  /\ rsApi = <<>>
  /\ rsRedirect = <<>>
  /\ rsOut = <<>>
  /\ rsState = "idle"

\* the selection variables in a run that makes no separate selection
GsIdle ==
  /\ gsPublisher = <<>>
  /\ gsOut = <<>>
  /\ gsExit = -1
  /\ gsState = "idle"

\* the command variables in a run that is no run of the command
CliIdle ==
  /\ cliInput = <<>>
  /\ cliStage = "idle"
  /\ cliResolved = <<>>
  /\ cliScraper = <<>>
  /\ cliFailed = "none"
  /\ cliExit = -1
  /\ cliBrowser = FALSE
  /\ cliOutput = {}
  /\ cliCall = "none"

\* the rendering variables in a run that renders nothing
MdIdle ==
  /\ mdPaper = <<>>
  /\ mdState = "idle"
  /\ mdOut = <<>>

\* the cookie variables in a run that converts no cookie list
CkIdle ==
  /\ ckIn = <<>>
  /\ ckOut = <<>>
  /\ ckState = "idle"

\* the proxy variables in a run that builds no proxied URL
PxIdle ==
  /\ pxTemplate = [given |-> FALSE, text |-> <<>>]
  /\ pxTarget = <<>>
  /\ pxResult = <<>>
  /\ pxDone = FALSE

\* the download variables in a run that makes no separate calls
DlIdle ==
  /\ files = {}
  /\ imagesDir = [d \in OutputDirs |-> "missing"]
  /\ prevCall = NoCall
  /\ lastCall = NoCall
  /\ calls = 0

\* a file system a run of calls can start from
DlInit ==
  /\ files \in SUBSET {<<"out", FileName(UrlPng)>>}
  /\ imagesDir \in {d \in [OutputDirs -> {"missing", "dir", "blocked"}] :
                       d["out"] # "blocked" /\ d["out2"] # "dir"}
  /\ \A f \in files : imagesDir[f[1]] = "dir"
  /\ prevCall = NoCall
  /\ lastCall = NoCall
  /\ calls = 0

\* the session variables in a run that makes no scrape
SessIdle ==
  /\ variant = "ieee"
  /\ cookiesGiven = FALSE
  /\ cookieFile = FileAbsent
  /\ jar = <<>>
  /\ pc = "idle"
  /\ err = "none"
  /\ inScope = FALSE
  /\ curUrl = <<>>
  /\ initLogin = FALSE
  /\ elapsed = 0
  /\ polls = 0
  /\ loginSaves = 0
  /\ reloads = 0
  /\ reloadUrl = <<>>
  /\ exitSaves = 0
  /\ fullHtml = FALSE
  /\ events = <<>>


----------------------------------------------------------------------------
(* One scrape: ieee.py / acm.py _scrape_async inside base.py _browser_tab *)

\* what the cookie file can hold when a scrape starts
CookieFiles ==
  { FileAbsent, FileUnreadable, FileMalformed, FileJson(<<>>),
    FileJson(<<RawLax>>), FileJson(<<RawBare, RawLax>>), FileJson(<<RawNoName>>) }

\* URLs tab.current_url can report
UrlDocument == <<"/", "d", "o", "c">>
UrlLogin == <<"/", "l", "o", "g", "i", "n">>
UrlLoginUpper == <<"/", "L", "O", "G", "I", "N">>
UrlShib == <<"/", "s", "h", "i", "b", "b", "o", "l", "e", "t", "h">>
UrlAuthors == <<"/", "a", "u", "t", "h", "o", "r", "s">>
ObservedUrls == {UrlDocument, UrlLogin, UrlLoginUpper, UrlShib, UrlAuthors}

Ended == {"returned", "raised"}

SessInit ==
  /\ variant \in {"acm", "ieee"}
  /\ cookiesGiven \in BOOLEAN
  /\ cookieFile \in CookieFiles
  /\ jar = <<>>
  /\ pc = "start"
  /\ err = "none"
  /\ inScope = FALSE
  /\ curUrl = <<>>
  /\ initLogin = FALSE
  /\ elapsed = 0
  /\ polls = 0
  /\ loginSaves = 0
  /\ reloads = 0
  /\ reloadUrl = <<>>
  /\ exitSaves = 0
  /\ fullHtml = FALSE
  /\ events = <<>>

\* an exception raised inside the `try: yield tab` of _browser_tab: the finally
\* clause runs next
Throw(e) ==
  /\ err' = e
  /\ pc' = "finally"

\* async with Chrome(options=options) as browser: tab = await browser.start()
Launch ==
  /\ pc = "start"
  /\ \E ok \in BOOLEAN :
       IF ok
         THEN /\ pc' = "load"
              /\ err' = err
         ELSE /\ pc' = "raised"
              /\ err' = "launch"
  /\ UNCHANGED <<variant, cookiesGiven, cookieFile, jar, inScope, curUrl,
                 initLogin, elapsed, polls, loginSaves, reloads, reloadUrl, exitSaves,
                 fullHtml, events>>
  /\ UNCHANGED <<dlVars, pxVars, ckVars, exVars, rtVars, doiVars, rsVars, gsVars, cliVars, mdVars>>

\* the cookie load of _browser_tab, up to the yield
LoadCookies ==
  /\ pc = "load"
  /\ IF cookiesGiven /\ cookieFile.kind # "absent"
       THEN IF cookieFile.kind \in {"unreadable", "malformed"}
                 \/ ConvertRaises(cookieFile.data)
              THEN \* open(), json.load() or raw["name"] raises before the try
                   /\ pc' = "raised"
                   /\ err' = "cookie_read"
                   /\ UNCHANGED <<jar, inScope, events>>
              ELSE \E setOk \in BOOLEAN :
                     LET cdp == ConvertCookiesForCdp(cookieFile.data) IN
                     IF cdp # <<>> /\ ~setOk
                       THEN \* await tab.set_cookies(cdp_cookies) raises
                            /\ pc' = "raised"
                            /\ err' = "set_cookies"
                            /\ UNCHANGED <<jar, inScope, events>>
                       ELSE /\ jar' = cdp
                            /\ pc' = "nav"
                            /\ inScope' = TRUE
                            /\ events' = IF cdp # <<>>
                                           THEN Append(events, "set_cookies")
                                           ELSE events
                            /\ err' = err
       ELSE /\ pc' = "nav"
            /\ inScope' = TRUE
            /\ UNCHANGED <<jar, err, events>>
  /\ UNCHANGED <<variant, cookiesGiven, cookieFile, curUrl, initLogin, elapsed,
                 polls, loginSaves, reloads, reloadUrl, exitSaves, fullHtml>>
  /\ UNCHANGED <<dlVars, pxVars, ckVars, exVars, rtVars, doiVars, rsVars, gsVars, cliVars, mdVars>>

\* what a page load can do to the browser's cookies
JarAfterLoad(j) ==
  {j} \cup (IF \E i \in 1..Len(j) : j[i] = SessionCookie
              THEN {} ELSE {Append(j, SessionCookie)})

\* await tab.go_to(nav_url | landing_url); await asyncio.sleep(5)
Navigate ==
  /\ pc = "nav"
  /\ \E ok \in BOOLEAN :
       IF ok
         THEN /\ pc' = IF variant = "ieee" THEN "login_check" ELSE "html"
              /\ err' = err
              /\ events' = Append(events, "navigate")
              /\ jar' \in JarAfterLoad(jar)
         ELSE /\ Throw("navigation")
              /\ UNCHANGED <<events, jar>>
  /\ UNCHANGED <<variant, cookiesGiven, cookieFile, inScope, curUrl, initLogin,
                 elapsed, polls, loginSaves, reloads, reloadUrl, exitSaves, fullHtml>>
  /\ UNCHANGED <<dlVars, pxVars, ckVars, exVars, rtVars, doiVars, rsVars, gsVars, cliVars, mdVars>>

\* _wait_for_login up to its first test: current_url = await tab.current_url;
\* if not is_login: return
LoginCheck ==
  /\ pc = "login_check"
  /\ \E u \in ObservedUrls :
       /\ curUrl' = u
       /\ initLogin' = IsLogin(u)
       /\ pc' = IF IsLogin(u) THEN "poll" ELSE "post_login"
  /\ events' = Append(events, "login_check")
  /\ UNCHANGED <<variant, cookiesGiven, cookieFile, jar, err, inScope, elapsed,
                 polls, loginSaves, reloads, reloadUrl, exitSaves, fullHtml>>
  /\ UNCHANGED <<dlVars, pxVars, ckVars, exVars, rtVars, doiVars, rsVars, gsVars, cliVars, mdVars>>

\* what _wait_for_login does once the polled URL is no login wall, in order:
\* _save_cookies when cookies_file is set, then tab.go_to(current_url)
LoginDetectedMutReloadFirst(given) ==
  <<"reload">> \o (IF given THEN <<"login_save">> ELSE <<>>)

LoginDetected(given) ==
  (IF given THEN <<"login_save">> ELSE <<>>) \o <<"reload">>

\* one iteration of `while elapsed < max_wait`
Poll ==
  /\ pc = "poll"
  /\ LoopContinues(elapsed)
  /\ elapsed' = elapsed + poll_interval
  /\ polls' = polls + 1
  /\ \E u \in ObservedUrls :
       /\ curUrl' = u
       /\ IF IsLogin(u)
            THEN /\ pc' = "poll"
                 /\ UNCHANGED <<cookieFile, jar, err, loginSaves, reloads, reloadUrl, events>>
            ELSE \E j \in JarAfterLoad(jar), out \in SaveOutcomes, ok \in BOOLEAN :
                   /\ jar' = j
                   /\ IF cookiesGiven
                        THEN /\ cookieFile' = SaveCookies(j, cookieFile, out)
                             /\ loginSaves' = loginSaves + 1
                        ELSE UNCHANGED <<cookieFile, loginSaves>>
                   /\ reloads' = reloads + 1
                   /\ reloadUrl' = u
                   /\ events' = events \o LoginDetected(cookiesGiven)
                   /\ IF ok
                        THEN /\ pc' = "post_login"
                             /\ err' = err
                        ELSE Throw("navigation")
  /\ UNCHANGED <<variant, cookiesGiven, inScope, initLogin, exitSaves, fullHtml>>
  /\ UNCHANGED <<dlVars, pxVars, ckVars, exVars, rtVars, doiVars, rsVars, gsVars, cliVars, mdVars>>

\* the loop ends with the ceiling reached: the warning is printed and
\* _wait_for_login returns
PollTimeout ==
  /\ pc = "poll"
  /\ ~LoopContinues(elapsed)
  /\ pc' = "post_login"
  /\ UNCHANGED <<variant, cookiesGiven, cookieFile, jar, err, inScope, curUrl,
                 initLogin, elapsed, polls, loginSaves, reloads, reloadUrl, exitSaves, fullHtml,
                 events>>
  /\ UNCHANGED <<dlVars, pxVars, ckVars, exVars, rtVars, doiVars, rsVars, gsVars, cliVars, mdVars>>

\* the scroll script that makes the page load its lazy content: ieee.py runs
\* it before it reads the page source, acm.py has none
LazyContent(v) == IF v = "ieee" THEN <<"scroll">> ELSE <<>>

\* ieee.py: nav_url = await tab.current_url; the landmark query and the scroll
\* script (both non-fatal); html = await tab.page_source; the debug dump.
\* acm.py: the landmark query (non-fatal); html = await tab.page_source
FetchHtml ==
  /\ pc \in {"post_login", "html"}
  /\ \E ok \in BOOLEAN :
       IF ok
         THEN /\ pc' = "extract"
              /\ err' = err
              /\ events' = events \o LazyContent(variant) \o <<"html">>
         ELSE /\ Throw("page_source")
              /\ UNCHANGED events
  /\ UNCHANGED <<variant, cookiesGiven, cookieFile, jar, inScope, curUrl,
                 initLogin, elapsed, polls, loginSaves, reloads, reloadUrl, exitSaves, fullHtml>>
  /\ UNCHANGED <<dlVars, pxVars, ckVars, exVars, rtVars, doiVars, rsVars, gsVars, cliVars, mdVars>>

\* the extraction over the parsed page, with its figure downloads; acm.py goes to
\* the fullHtml endpoint first when the landing page has no bodymatter
Extract ==
  /\ pc = "extract"
  /\ \E out \in {"ok", "raises", "fullhtml", "fullhtml_fails"} :
       /\ out \in {"fullhtml", "fullhtml_fails"} => variant = "acm" /\ ~fullHtml
       /\ CASE out = "ok" ->
                 /\ pc' = "finally"
                 /\ err' = err
                 /\ events' = Append(events, "extract")
                 /\ UNCHANGED fullHtml
            [] out = "raises" ->
                 /\ Throw("extraction")
                 /\ events' = Append(events, "extract")
                 /\ UNCHANGED fullHtml
            [] out = "fullhtml" ->
                 /\ pc' = "html"
                 /\ err' = err
                 /\ fullHtml' = TRUE
                 /\ events' = Append(events, "navigate")
            [] out = "fullhtml_fails" ->
                 /\ Throw("navigation")
                 /\ fullHtml' = TRUE
                 /\ UNCHANGED events
  /\ UNCHANGED <<variant, cookiesGiven, cookieFile, jar, inScope, curUrl,
                 initLogin, elapsed, polls, loginSaves, reloads, reloadUrl, exitSaves>>
  /\ UNCHANGED <<dlVars, pxVars, ckVars, exVars, rtVars, doiVars, rsVars, gsVars, cliVars, mdVars>>

\* _browser_tab's finally, then the scrape returns the paper or the exception
\* leaves it
ExitScope ==
  /\ pc = "finally"
  /\ IF cookiesGiven
       THEN \E out \in SaveOutcomes :
              /\ cookieFile' = SaveCookies(jar, cookieFile, out)
              /\ exitSaves' = exitSaves + 1
              /\ events' = Append(events, "exit_save")
       ELSE UNCHANGED <<cookieFile, exitSaves, events>>
  /\ pc' = IF err = "none" THEN "returned" ELSE "raised"
  /\ UNCHANGED <<variant, cookiesGiven, jar, err, inScope, curUrl, initLogin,
                 elapsed, polls, loginSaves, reloads, reloadUrl, fullHtml>>
  /\ UNCHANGED <<dlVars, pxVars, ckVars, exVars, rtVars, doiVars, rsVars, gsVars, cliVars, mdVars>>

SessNext ==
  \/ Launch
  \/ LoadCookies
  \/ Navigate
  \/ LoginCheck
  \/ Poll
  \/ PollTimeout
  \/ FetchHtml
  \/ Extract
  \/ ExitScope

Init == SessInit /\ DlIdle /\ PxIdle /\ CkIdle /\ ExIdle /\ RtIdle /\ DoiIdle /\ RsIdle /\ GsIdle /\ CliIdle /\ MdIdle

Next == SessNext

Spec == Init /\ [][Next]_vars

\* the event loop keeps running the scrape coroutine until it returns or raises
FairSpec == Spec /\ WF_vars(Next)

----------------------------------------------------------------------------
(* Claims about the session *)

\* C1 (as claimed): a scrape that was given a cookies path and whose browser
\* started never ends without _browser_tab's finally having called
\* _save_cookies. (A failed browser launch, where no tab exists to read cookies
\* from, is left out of the statement.)
C1_WriteBackOnEveryExit ==
  (pc \in Ended /\ cookiesGiven /\ err # "launch") => exitSaves >= 1

\* C2 (as claimed): no scrape ends with an exception that came from reading the
\* cookie file; the session scope is entered whatever the file holds.
C2_CookieReadNeverAborts ==
  /\ ~(pc = "raised" /\ err = "cookie_read")
  /\ (pc \in Ended /\ err # "launch" /\ err # "set_cookies") => inScope

\* the most iterations `while elapsed < max_wait` can make
MaxPolls == max_wait \div poll_interval

\* _wait_for_login is running
InLoginWait == pc \in {"login_check", "poll"}

\* what holds of the login wait at every moment
LoginWaitBounded ==
  /\ polls <= MaxPolls
  /\ elapsed = polls * poll_interval
  /\ elapsed <= max_wait
  \* no login wall at the first look: returned without polling, saving, reloading
  /\ (~InLoginWait /\ ~initLogin) => (polls = 0 /\ loginSaves = 0 /\ reloads = 0)
  \* every polled URL was a login wall: MaxPolls polls, then a normal return
  /\ (pc = "post_login" /\ initLogin /\ reloads = 0)
       => (polls = MaxPolls /\ err = "none" /\ loginSaves = 0)

\* C10: the login wait terminates for every sequence of observed URLs: without
\* polling, saving or reloading when the first URL shows no login wall, and
\* otherwise after at most max_wait / poll_interval = 60 polls, returning
\* normally when every polled URL still showed a login wall.
C10_LoginWaitTerminates ==
  /\ []LoginWaitBounded
  /\ (InLoginWait ~> ~InLoginWait)

\* the ceiling was reached: 60 polls, all of them login walls, and the scrape
\* goes on
C10_Witness ==
  /\ pc = "post_login"
  /\ initLogin
  /\ polls = MaxPolls
  /\ reloads = 0
  /\ err = "none"

\* the step is the poll that first sees a URL without a login-wall pattern
LoginDetectedStep ==
  /\ pc = "poll"
  /\ polls' = polls + 1
  /\ ~IsLogin(curUrl')

\* what that poll does: the save (when a cookies path was supplied) is the
\* event right before the reload, the reload is the last event and goes to the
\* URL just read, and the loop is left
SaveThenReloadOnce ==
  /\ Len(events') = Len(events) + (IF cookiesGiven THEN 2 ELSE 1)
  /\ events'[Len(events')] = "reload"
  /\ cookiesGiven => events'[Len(events') - 1] = "login_save"
  /\ \A i \in 1..Len(events) : events'[i] = events[i]
  /\ loginSaves' = loginSaves + (IF cookiesGiven THEN 1 ELSE 0)
  /\ reloads' = reloads + 1
  /\ reloadUrl' = curUrl'
  /\ pc' # "poll"

\* the login wait saved or reloaded
LoginWaitActed ==
  \/ loginSaves > 0
  \/ reloads > 0
  \/ \E i \in 1..Len(events) : events[i] \in {"login_save", "reload"}

\* the login wait is over and found no login wall at its first look
NoLoginPath == ~InLoginWait /\ ~initLogin

\* the login wait is over and every URL it polled was a login wall
TimeoutPath == pc = "post_login" /\ initLogin /\ IsLogin(curUrl)

\* C11: in the login wait, the first poll whose URL matches no login-wall
\* pattern saves the cookies (when a cookies path was supplied), then reloads
\* the page once at that URL and leaves the loop, the save strictly before the
\* reload; the wait reloads at most once, and on the no-login path and on the
\* timeout path it neither saves nor reloads. (A reload that raises leaves
\* _wait_for_login by the exception instead of by its return.)
C11_SaveThenReloadOnce ==
  /\ [][LoginDetectedStep => SaveThenReloadOnce]_vars
  /\ [](reloads <= 1 /\ loginSaves <= reloads)
  /\ []((NoLoginPath \/ TimeoutPath) => ~LoginWaitActed)

\* a login was detected at a poll with a cookies path supplied: one save, one
\* reload at the URL polled, and _wait_for_login returned
C11_Witness ==
  /\ pc = "post_login"
  /\ initLogin
  /\ cookiesGiven
  /\ ~IsLogin(curUrl)
  /\ loginSaves = 1
  /\ reloads = 1
  /\ reloadUrl = curUrl
  /\ events[Len(events)] = "reload"
  /\ events[Len(events) - 1] = "login_save"

\* the places of step e among the steps of the scrape
Places(e) == {i \in 1..Len(events) : events[i] = e}

\* the cookies are loaded before the first navigation, none after it
CookiesBeforeNavigation ==
  \A c \in Places("set_cookies"), n \in Places("navigate") : c < n

\* the rendered HTML is retrieved only after a navigation and, after that, a
\* login detection
LoginDetectionBeforeHtml ==
  \A h \in Places("html") :
    \E n \in Places("navigate"), l \in Places("login_check") : n < l /\ l < h

\* the rendered HTML is retrieved only after a navigation
NavigationBeforeHtml ==
  \A h \in Places("html") : \E n \in Places("navigate") : n < h

\* lazy content is triggered by the publisher that needs it only, after the
\* login detection and before every retrieval of the HTML
LazyContentBeforeHtml ==
  /\ \A s \in Places("scroll") :
       /\ variant = "ieee"
       /\ \E l \in Places("login_check") : l < s
       /\ \E h \in Places("html") : s < h
  /\ variant = "ieee" =>
       \A h \in Places("html") : \E s \in Places("scroll") : s < h

\* extraction, with its figure downloads, runs only after the HTML was
\* retrieved
HtmlBeforeExtraction ==
  \A x \in Places("extract") : \E h \in Places("html") : h < x

\* C22: every scrape of either variant performs its steps in the order: load
\* cookies, navigate, detect/await login, trigger lazy content (only the
\* publisher that needs it), retrieve the rendered HTML, run extraction with
\* its figure downloads; no cookie is loaded after the first navigation, login
\* detection is never skipped, no image download precedes the HTML.
C22_StepOrder ==
  /\ CookiesBeforeNavigation
  /\ LoginDetectionBeforeHtml
  /\ LazyContentBeforeHtml
  /\ HtmlBeforeExtraction

\* what holds instead: the IEEE scrape keeps the whole order; the ACM scrape
\* keeps it but for the login detection, which it never makes
StepOrderButAcmLogin ==
  /\ CookiesBeforeNavigation
  /\ NavigationBeforeHtml
  /\ variant = "ieee" => LoginDetectionBeforeHtml
  /\ variant = "acm" => Places("login_check") = {}
  /\ LazyContentBeforeHtml
  /\ HtmlBeforeExtraction

----------------------------------------------------------------------------
(* _download_image called repeatedly against one file system *)

\* the most calls of _download_image one behaviour makes
MaxCalls == 2

\* one call of _download_image
CallDownloadImage ==
  /\ calls < MaxCalls
  /\ \E url \in ImageUrls, dir \in OutputDirs, hasTab \in BOOLEAN :
     \* the outcome of the fetch matters only to a call that fetches
     \E out \in IF DownloadImage(files, imagesDir[dir], hasTab, url, dir, "data").fetched
                  THEN FetchOutcomes ELSE {"data"} :
       LET r == DownloadImage(files, imagesDir[dir], hasTab, url, dir, out) IN
       /\ files' = r.files
       /\ imagesDir' = [imagesDir EXCEPT ![dir] = r.imagesDir]
       /\ prevCall' = lastCall
       /\ lastCall' = [url |-> url, dir |-> dir, hasTab |-> hasTab,
                       out |-> IF r.fetched THEN out ELSE "",
                       ret |-> r.ret, raised |-> r.raised,
                       fetched |-> r.fetched, made |-> TRUE]
       /\ calls' = calls + 1
  /\ UNCHANGED <<sessVars, pxVars, ckVars, exVars, rtVars, doiVars, rsVars, gsVars, cliVars, mdVars>>

DownloadInit == SessIdle /\ DlInit /\ PxIdle /\ CkIdle /\ ExIdle /\ RtIdle /\ DoiIdle /\ RsIdle /\ GsIdle /\ CliIdle /\ MdIdle

DownloadNext == CallDownloadImage

DownloadSpec == DownloadInit /\ [][DownloadNext]_vars

\* two successive calls were made with the same URL and output directory
SameTargetTwice ==
  /\ prevCall.made
  /\ lastCall.made
  /\ lastCall.url = prevCall.url
  /\ lastCall.dir = prevCall.dir

Fetches(c) == IF c.fetched THEN 1 ELSE 0

\* C5 (as claimed): two successive calls with the same URL and directory fetch
\* at most once in total, and the second returns what the first returned.
C5_FetchAtMostOnce ==
  (SameTargetTwice /\ ~prevCall.raised /\ ~lastCall.raised)
    => /\ Fetches(prevCall) + Fetches(lastCall) <= 1
       /\ lastCall.ret = prevCall.ret

\* C5 (amended): when the first of two successive calls with the same URL and
\* directory returned a path, the two calls fetch at most once in total and the
\* second returns the same path without fetching, the file being there.
C5_FetchAtMostOnceAfterSuccess ==
  (SameTargetTwice /\ ~prevCall.raised /\ prevCall.ret # EmptyPath)
    => /\ Fetches(prevCall) + Fetches(lastCall) <= 1
       /\ ~lastCall.fetched
       /\ ~lastCall.raised
       /\ lastCall.ret = prevCall.ret
       /\ DestExists(files, lastCall.dir, lastCall.url)

\* the first call fetched and wrote the file, the second found it
C5_Witness ==
  /\ SameTargetTwice
  /\ prevCall.fetched
  /\ prevCall.ret # EmptyPath
  /\ ~lastCall.fetched
  /\ lastCall.ret = prevCall.ret

\* C6 (as claimed): _download_image never raises to its caller, and every
\* failed download returns the empty path.
C6_DownloadNeverRaises ==
  lastCall.made =>
    /\ ~lastCall.raised
    /\ (lastCall.fetched /\ lastCall.out # "data") => lastCall.ret = EmptyPath
    /\ (~lastCall.hasTab /\ ~lastCall.fetched
          /\ ~DestExists(files, lastCall.dir, lastCall.url))
         => lastCall.ret = EmptyPath

----------------------------------------------------------------------------
(* _build_proxied_url applied to a template and a target *)

ProxyInit ==
  /\ SessIdle /\ DlIdle /\ CkIdle /\ ExIdle /\ RtIdle /\ DoiIdle /\ RsIdle /\ GsIdle /\ CliIdle /\ MdIdle
  /\ pxTemplate \in ProxyTemplates
  /\ pxTarget \in TargetUrls
  /\ pxResult = <<>>
  /\ pxDone = FALSE

CallBuildProxiedUrl ==
  /\ ~pxDone
  /\ pxResult' = BuildProxiedUrl(pxTemplate, pxTarget)
  /\ pxDone' = TRUE
  /\ UNCHANGED <<pxTemplate, pxTarget>>
  /\ UNCHANGED <<sessVars, dlVars, ckVars, exVars, rtVars, doiVars, rsVars, gsVars, cliVars, mdVars>>

ProxyNext == CallBuildProxiedUrl

ProxySpec == ProxyInit /\ [][ProxyNext]_vars

\* the URL after the scheme and the netloc: path, query and fragment as written
AfterNetloc(url) ==
  LET parsed == UrlParse(url)
      start == Len(parsed.scheme) + 1 + 2 + Len(parsed.netloc) + 1
  IN  From(url, start)

\* the template with its placeholders substituted in one pass: %u by the
\* percent-encoded target, %h by the target's hostname, %p by what follows the
\* netloc without its leading slashes; any other text is copied
Substituted(t, target) ==
  LET isPlaceholder(i) ==
        /\ i >= 1 /\ i < Len(t)
        /\ t[i] = "%"
        /\ t[i + 1] \in {"u", "h", "p"}
  IN  Concat([i \in 1..Len(t) |->
                IF isPlaceholder(i)
                  THEN CASE t[i + 1] = "u" -> Quote(target)
                         [] t[i + 1] = "h" -> ProxyHostHostname(UrlParse(target))
                         [] t[i + 1] = "p" -> LStripSlash(AfterNetloc(target))
                ELSE IF isPlaceholder(i - 1) THEN <<>>
                ELSE <<t[i]>>])

\* C8 (as claimed): the result is the template with every %u, %h and %p
\* replaced by the encoded target, its hostname and its path+query+fragment,
\* other text verbatim, https:// prepended when there is no scheme; the target
\* itself when there is no template.
C8_ProxiedUrlAsClaimed ==
  pxDone =>
    pxResult =
      IF ~pxTemplate.given \/ pxTemplate.text = <<>>
        THEN pxTarget
        ELSE LET r == Substituted(pxTemplate.text, pxTarget)
             IN  IF StartsWith(r, HttpPrefix) \/ StartsWith(r, HttpsPrefix)
                   THEN r ELSE HttpsPrefix \o r

----------------------------------------------------------------------------
(* _convert_cookies_for_cdp applied to a list of raw records *)

CookieInit ==
  /\ SessIdle /\ DlIdle /\ PxIdle /\ ExIdle /\ RtIdle /\ DoiIdle /\ RsIdle /\ GsIdle /\ CliIdle /\ MdIdle
  /\ ckIn \in SeqsUpTo(RawCookies, MaxCookies)
  /\ ckOut = <<>>
  /\ ckState = "input"

CallConvertCookies ==
  /\ ckState = "input"
  /\ IF ConvertRaises(ckIn)
       THEN /\ ckState' = "raised"
            /\ ckOut' = <<>>
       ELSE /\ ckState' = "returned"
            /\ ckOut' = ConvertCookiesForCdp(ckIn)
  /\ UNCHANGED ckIn
  /\ UNCHANGED <<sessVars, dlVars, pxVars, exVars, rtVars, doiVars, rsVars, gsVars, cliVars, mdVars>>

CookieNext == CallConvertCookies

CookieSpec == CookieInit /\ [][CookieNext]_vars

\* the normalized sameSite the claim gives each spelling
ClaimedSameSite(v) ==
  IF v \in {SsNoRestriction, SsNoRestrictionUpper} THEN <<"N", "o", "n", "e">>
  ELSE IF v \in {SsStrict, SsStrictTitle} THEN <<"S", "t", "r", "i", "c", "t">>
  ELSE <<"L", "a", "x">>

\* two raw records that differ in the letter case of sameSite and in nothing else
DifferOnlyInSameSiteCase(a, b) ==
  /\ DOMAIN a = DOMAIN b
  /\ "sameSite" \in DOMAIN a
  /\ \A f \in DOMAIN a \ {"sameSite"} : a[f] = b[f]
  /\ a["sameSite"] # b["sameSite"]
  /\ Lower(a["sameSite"]) = Lower(b["sameSite"])

----------------------------------------------------------------------------
(* Extraction of one parsed page by either scraper *)

ExtractInit ==
  /\ SessIdle /\ DlIdle /\ PxIdle /\ CkIdle /\ RtIdle /\ DoiIdle /\ RsIdle /\ GsIdle /\ CliIdle /\ MdIdle
  /\ \E in \in IeeeInputs \cup AcmInputs \cup IeeeHeadInputs \cup AcmHeadInputs :
       /\ exVariant = in.variant
       /\ exPage = in.page
       /\ exFtPage = in.ft_page
  /\ exFiles = {}
  /\ exImagesDir \in {"missing", "blocked"}
  /\ exPaper = NoPaper
  /\ exState = "parsed"
  /\ exErr = "none"
  /\ exFigCalls = <<>>

\* what a fetch made for a figure can do: succeed, fail leaving nothing, fail
\* leaving a partial file
ExtractFetchOutcomes == {"data", "script_raises", "write_fails"}

\* the environment extraction starts in, the fetches going as outs says
Env(outs) ==
  [files |-> exFiles, imagesDir |-> exImagesDir, outs |-> outs, n |-> 0,
   err |-> "none", figCalls |-> <<>>]

\* the most fetches of one run that each go their own way; the fetches after
\* them fail
MaxVariedFetches == 2

\* the outcomes of the fetches of a run that makes at most k of them (most:
\* the fetches of the run in which every fetch fails)
Oracles(k) ==
  [1..(IF k < MaxVariedFetches THEN k ELSE MaxVariedFetches) -> ExtractFetchOutcomes]

\* extraction ended: the paper is returned or the exception leaves the scrape
ExtractionDone(r) ==
  /\ exState' = IF r.env.err = "none" THEN "returned" ELSE "raised"
  /\ exErr' = r.env.err
  /\ exPaper' = IF r.env.err = "none" THEN r.paper ELSE NoPaper
  /\ exFiles' = r.env.files
  /\ exImagesDir' = r.env.imagesDir
  /\ exFigCalls' = r.env.figCalls
  /\ UNCHANGED <<exVariant, exPage, exFtPage>>

ScrapeIeee ==
  /\ exState = "parsed"
  /\ exVariant = "ieee"
  /\ \E most \in {IeeeScrape(exPage, Env(<<>>)).env.n} :
       \E outs \in Oracles(most) :
         \E r \in {IeeeScrape(exPage, Env(outs))} : ExtractionDone(r)
  /\ UNCHANGED <<sessVars, dlVars, pxVars, ckVars, rtVars, doiVars, rsVars, gsVars, cliVars, mdVars>>

ScrapeAcm ==
  /\ exState = "parsed"
  /\ exVariant = "acm"
  /\ \E most \in {AcmScrape(exPage, exFtPage, Env(<<>>)).env.n} :
       \E outs \in Oracles(most) :
         \E r \in {AcmScrape(exPage, exFtPage, Env(outs))} : ExtractionDone(r)
  /\ UNCHANGED <<sessVars, dlVars, pxVars, ckVars, rtVars, doiVars, rsVars, gsVars, cliVars, mdVars>>

ExtractNext == ScrapeIeee \/ ScrapeAcm

ExtractSpec == ExtractInit /\ [][ExtractNext]_vars

\* C3: whatever the markup of the page (any nesting, any tag under a
\* section-title class), section, content and figure extraction of both
\* variants completes without an exception raised on the markup
C3_ExtractionNeverRaisesOnMarkup ==
  exState = "raised" => exErr \notin {"ValueError", "IndexError"}

\* C4: in a returned document, no discovered section and a non-empty abstract
\* give exactly one section, headed "Abstract", whose content is the abstract
\* alone; discovered sections are returned as they are; so a non-empty
\* abstract never comes with an empty section list
C4_AbstractFallback ==
  exState = "returned" =>
    /\ (exPaper.discovered = <<>> /\ exPaper.abstract # <<>>) =>
         /\ Len(exPaper.sections) = 1
         /\ exPaper.sections[1].heading = <<"A", "b", "s", "t", "r", "a", "c", "t">>
         /\ exPaper.sections[1].content = <<TextBlock(exPaper.abstract)>>
    /\ exPaper.discovered # <<>> => exPaper.sections = exPaper.discovered
    /\ exPaper.abstract # <<>> => exPaper.sections # <<>>

\* C4 witness: an ACM page and an IEEE page can each come back with the one
\* synthesized section; here the IEEE one, its body holding elements
C4_Witness ==
  /\ exState = "returned"
  /\ exVariant = "ieee"
  /\ exPaper.discovered = <<>>
  /\ exPaper.abstract # <<>>
  /\ Len(exPaper.sections) = 1
  /\ Len(exPage.kids) > 1

\* the first image under a figure element, as a list of at most one
FirstImage(element) ==
  LET imgs == Css(element, LAMBDA e : e.node.tag = TagImg)
  IN  IF imgs = <<>> THEN <<>> ELSE <<imgs[1]>>

\* the source attributes a variant reads from an image
SourcesOf(img) ==
  IF exVariant = "acm" THEN {img.viewerSrc, img.src} ELSE {img.src, img.dataSrc}

NoRepeat(list) == \A i, j \in 1..Len(list) : list[i] = list[j] => i = j

\* where x first occurs in a list that holds it
FirstAt(x, list) ==
  CHOOSE i \in 1..Len(list) : list[i] = x /\ \A j \in 1..(i - 1) : list[j] # x

\* every element of the list occurs in `appearing`, and the elements are in
\* the order in which they first occur there
InOrderOfAppearance(list, appearing) ==
  /\ \A i \in 1..Len(list) : \E k \in 1..Len(appearing) : appearing[k] = list[i]
  /\ \A i, j \in 1..Len(list) :
       i < j => FirstAt(list[i], appearing) <= FirstAt(list[j], appearing)

\* the author names and the keywords of the page, in the order of the markup
AppearingAuthors ==
  IF exVariant = "ieee" THEN CleanTexts(IeeeAuthorEls(exPage))
                        ELSE AcmAuthorNames(exPage)

AppearingKeywords ==
  IF exVariant = "ieee" THEN CleanTexts(IeeeKeywordEls(exPage))
  ELSE The({ IF holders = <<>> THEN <<>>
             ELSE CleanTexts(Css(holders[1], LAMBDA e : e.node.tag = TagA))
             : holders \in {Css(exPage, LAMBDA e : Get(e.node.id) = <<"s", "e", "c", "-", "t", "e", "r", "m", "s">>)} })

\* C17 (as claimed): in every returned document the authors list holds no
\* string twice and the keywords list holds no string twice, and each list has
\* its entries in the order of their first appearance in the markup.
C17_UniqueInOrder ==
  exState = "returned" =>
    /\ NoRepeat(exPaper.authors)
    /\ NoRepeat(exPaper.keywords)
    /\ InOrderOfAppearance(exPaper.authors, AppearingAuthors)
    /\ InOrderOfAppearance(exPaper.keywords, AppearingKeywords)

\* the authors of either variant and the keywords of the IEEE variant do hold
\* no string twice
UniqueWhereDeduplicated ==
  exState = "returned" =>
    /\ NoRepeat(exPaper.authors)
    /\ exVariant = "ieee" => NoRepeat(exPaper.keywords)
    /\ InOrderOfAppearance(exPaper.authors, AppearingAuthors)
    /\ InOrderOfAppearance(exPaper.keywords, AppearingKeywords)

\* the text is empty or holds whitespace only
IsBlank(text) == \A i \in 1..Len(text) : text[i] \in Whitespace

\* the TextBlocks of the document
TextBlocksOf(paper) ==
  UNION {{paper.sections[s].content[b].text :
            b \in {k \in 1..Len(paper.sections[s].content) :
                     paper.sections[s].content[k].kind = "text"}}
         : s \in 1..Len(paper.sections)}

\* the TextBlocks that section discovery made are never blank
DiscoveredTextNotBlank ==
  exState = "returned" =>
    \A s \in 1..Len(exPaper.discovered) :
      \A b \in 1..Len(exPaper.discovered[s].content) :
        exPaper.discovered[s].content[b].kind = "text"
          => ~IsBlank(exPaper.discovered[s].content[b].text)

\* C18 (as claimed): in every returned document no TextBlock of any section,
\* no author and no keyword is an empty or whitespace-only string.
C18_NoBlankText ==
  exState = "returned" =>
    /\ \A t \in TextBlocksOf(exPaper) : ~IsBlank(t)
    /\ \A i \in 1..Len(exPaper.authors) : ~IsBlank(exPaper.authors[i])
    /\ \A i \in 1..Len(exPaper.keywords) : ~IsBlank(exPaper.keywords[i])

\* the matches of each selector candidate for the IEEE authors, in the order
\* the selector lists them
IeeeAuthorCandidates(page) ==
  << Css(page, LAMBDA e :
           /\ e.node.tag = TagSpan
           /\ HasClass(e.node, <<"a", "u", "t", "h", "o", "r", "-", "n", "a", "m", "e">>)
           /\ Inside(e, LAMBDA a : HasClass(a, <<"a", "u", "t", "h", "o", "r", "s", "-", "i", "n", "f", "o">>))),
     Css(page, LAMBDA e :
           /\ e.node.tag = TagSpan
           /\ InsideTwo(e, LAMBDA a : ClassContains(a, <<"a", "u", "t", "h", "o", "r">>),
                           LAMBDA a : a.tag = TagA)),
     Css(page, LAMBDA e :
           /\ e.node.tag = TagSpan
           /\ InsideTwo(e, LAMBDA a : HasClass(a, <<"a", "u", "t", "h", "o", "r", "s", "-", "c", "o", "n", "t", "a", "i", "n", "e", "r">>),
                           LAMBDA a : HasClass(a, <<"a", "u", "t", "h", "o", "r", "-", "c", "a", "r", "d">>))) >>

\* the same for the IEEE keywords
IeeeKeywordCandidates(page) ==
  << Css(page, LAMBDA e :
           /\ e.node.tag = TagA
           /\ InsideTwo(e, LAMBDA a : HasClass(a, <<"s", "t", "a", "t", "s", "-", "k", "e", "y", "w", "o", "r", "d", "s", "-", "c", "o", "n", "t", "a", "i", "n", "e", "r">>),
                           LAMBDA a : HasClass(a, <<"k", "e", "y", "w", "o", "r", "d">>))),
     Css(page, LAMBDA e :
           /\ e.node.tag = TagA
           /\ Inside(e, LAMBDA a : ClassContains(a, <<"k", "e", "y", "w", "o", "r", "d">>))),
     Css(page, LAMBDA e :
           /\ e.node.tag = TagLi
           /\ Inside(e, LAMBDA a : HasClass(a, <<"d", "o", "c", "-", "k", "e", "y", "w", "o", "r", "d", "s", "-", "l", "i", "s", "t">>))) >>

\* the same for the IEEE abstract
IeeeAbstractCandidates(page) ==
  << Css(page, LAMBDA e : e.node.tag = TagDiv /\ "xplmathjax" \in e.node.flags),
     Css(page, LAMBDA e : /\ e.node.tag = TagDiv
                          /\ Inside(e, LAMBDA a : HasClass(a, <<"a", "b", "s", "t", "r", "a", "c", "t", "-", "t", "e", "x", "t">>))),
     Css(page, LAMBDA e : HasClass(e.node, <<"a", "b", "s", "t", "r", "a", "c", "t", "-", "t", "e", "x", "t">>)),
     Css(page, LAMBDA e : /\ e.node.tag = TagP
                          /\ Inside(e, LAMBDA a : Get(a.id) = <<"a", "b", "s", "t", "r", "a", "c", "t", "S", "e", "c", "t", "i", "o", "n">>)) >>

\* the texts the matches of one candidate yield: cleaned, the empty ones left out
Yield(els) ==
  NonEmpty([i \in 1..Len(els) |-> CleanText(els[i].text)])

\* the yield of the first candidate that yields any text, without repeats
FirstYield(cands) ==
  The({ IF yielding = {} THEN <<>>
        ELSE Unique(Yield(cands[CHOOSE k \in yielding :
                                  \A m \in yielding : k <= m]))
        : yielding \in {{k \in 1..Len(cands) : Yield(cands[k]) # <<>>}} })

\* text is acceptable as an abstract: longer than 20 characters and not
\* ending with the label
PlausibleAbstract(text) ==
  Len(text) > 20 /\ ~EndsWith(Lower(text), <<"a", "b", "s", "t", "r", "a", "c", "t", ":">>)

\* the first plausible text of the first candidate that yields one
FirstPlausible(cands) ==
  The({ IF yielding = {} THEN <<>>
        ELSE SelectSeq(Yield(cands[CHOOSE k \in yielding :
                                     \A m \in yielding : k <= m]),
                       PlausibleAbstract)[1]
        : yielding \in {{k \in 1..Len(cands) :
                           SelectSeq(Yield(cands[k]), PlausibleAbstract) # <<>>}} })

\* the abstract is the first plausible text of the first candidate with one
AbstractFromFirstCandidate ==
  (exState = "returned" /\ exVariant = "ieee") =>
    exPaper.abstract = FirstPlausible(IeeeAbstractCandidates(exPage))

\* C23 (authors, keywords and abstract of the IEEE variant, whose selectors
\* have several candidates): the extracted value comes from the first
\* candidate, in the order of the selector, that yields acceptable text; the
\* matches of later candidates are not used once an earlier one yields.
C23_FirstCandidateOnly ==
  (exState = "returned" /\ exVariant = "ieee") =>
    /\ exPaper.authors = FirstYield(IeeeAuthorCandidates(exPage))
    /\ exPaper.keywords = FirstYield(IeeeKeywordCandidates(exPage))
    /\ exPaper.abstract = FirstPlausible(IeeeAbstractCandidates(exPage))

\* what holds instead: authors are the texts of the matches of all three
\* candidates together; the abstract follows the order of its candidates
AuthorsFromAllCandidates ==
  (exState = "returned" /\ exVariant = "ieee") =>
    /\ {exPaper.authors[i] : i \in 1..Len(exPaper.authors)}
         = UNION {{Yield(IeeeAuthorCandidates(exPage)[k])[i]
                     : i \in 1..Len(Yield(IeeeAuthorCandidates(exPage)[k]))}
                  : k \in 1..3}
    /\ exPaper.abstract = FirstPlausible(IeeeAbstractCandidates(exPage))

\* the elements of a page, in document order
AllNodes(page) == Css(page, LAMBDA e : TRUE)

\* the content blocks of a list of sections, section after section
BlocksOf(sections) ==
  Concat([s \in 1..Len(sections) |-> sections[s].content])

\* the text a node of the article body stands for: of a paragraph node its
\* cleaned text, of a list node (ACM) its flattened list, of any other node
\* none
TextOfNode(v, n) ==
  IF v = "ieee"
    THEN IF n.tag = TagP THEN CleanText(n.text) ELSE <<>>
  ELSE IF n.tag # TagDiv THEN <<>>
  ELSE IF Get(n.role) = <<"p", "a", "r", "a", "g", "r", "a", "p", "h">> THEN CleanText(n.text)
  ELSE IF Get(n.role) = <<"l", "i", "s", "t">> \/ Contains(Get(n.dataType), <<"b", "u", "l", "l", "e", "t">>)
    THEN AcmExtractList(n)
  ELSE <<>>

\* n is a figure node with an image that has a source
IsFigureNode(n) ==
  /\ n.tag = TagFigure
  /\ \E i \in 1..Len(n.kids) :
       /\ n.kids[i].tag = TagImg
       /\ \/ Get(n.kids[i].src) # <<>>
          \/ Get(n.kids[i].dataSrc) # <<>>
          \/ Get(n.kids[i].viewerSrc) # <<>>

\* how many elements of s satisfy P
HowMany(s, P(_)) == Len(SelectSeq(s, P))

\* no text and no figure is in the sections more often than the page has
\* nodes for it
NoBlockTwice(v, nodes, blocks) ==
  /\ \A b \in 1..Len(blocks) :
       blocks[b].kind = "text" =>
         HowMany(blocks, LAMBDA x : x.kind = "text" /\ x.text = blocks[b].text)
           <= HowMany(nodes, LAMBDA n : TextOfNode(v, n) = blocks[b].text)
  /\ HowMany(blocks, LAMBDA x : x.kind = "figure")
       <= HowMany(nodes, IsFigureNode)

\* C21: within section extraction of either variant no paragraph, list or
\* figure node of the article body contributes more than one content block to
\* the returned document, nodes inside nested section containers included.
C21_OneBlockPerNode ==
  exState = "returned" =>
    NoBlockTwice(exVariant, AllNodes(exPage) \o AllNodes(exFtPage),
                 BlocksOf(exPaper.discovered))

\* what holds instead: the ACM variant takes every node at most once
AcmOneBlockPerNode ==
  (exState = "returned" /\ exVariant = "acm") =>
    NoBlockTwice(exVariant, AllNodes(exPage) \o AllNodes(exFtPage),
                 BlocksOf(exPaper.discovered))

\* the body of the article a returned extraction read: IEEE's .article-body,
\* ACM's section#bodymatter or the fullHtml page's .article__body; <<>> when
\* the page has none
ArticleBody ==
  IF exVariant = "ieee"
    THEN Css(exPage, LAMBDA e : HasClass(e.node, <<"a", "r", "t", "i", "c", "l", "e", "-", "b", "o", "d", "y">>))
    ELSE The({ IF b = <<>> THEN <<>> ELSE <<b[1].el>>
               : b \in {AcmBody(exPage, exFtPage)} })

\* what a child of the body stands for in a walk of the body from heading to
\* heading: a text, a figure, or nothing
KeyOfNode(v, n) ==
  IF TextOfNode(v, n) # <<>> THEN <<"text", TextOfNode(v, n)>>
  ELSE IF v = "ieee" /\ IsFigureNode(n) THEN <<"figure">>
  ELSE IF /\ v = "acm"
          /\ n.tag = TagDiv
          /\ Contains(Get(n.class), <<"f", "i", "g", "u", "r", "e", "-", "w", "r", "a", "p">>)
          /\ \E i \in 1..Len(n.kids) : IsFigureNode(n.kids[i])
    THEN <<"figure">>
  ELSE <<>>

\* the same for a content block
KeyOfBlock(b) == IF b.kind = "text" THEN <<"text", b.text>> ELSE <<"figure">>

\* the body has headings, paragraphs and figures only, no section container,
\* and is no container itself: discovery walks it from heading to heading
FlatBody(body) ==
  /\ ~(body.tag = TagSection /\ body.id # Absent)
  /\ \A i \in 1..Len(body.kids) :
       /\ body.kids[i].tag # TagSection
       /\ ~(body.kids[i].tag = TagDiv /\ Contains(Get(body.kids[i].class), <<"s", "e", "c", "t", "i", "o", "n">>))

\* the sections a walk of kids in document order gives when every block goes
\* to the heading that most recently precedes it and the blocks before the
\* first heading to an unlabeled leading section
InDocumentOrder(v, kids) ==
  The({ (IF \E i \in 1..Len(kids) :
              KeyOfNode(v, kids[i]) # <<>> /\ \A h \in heads : i < h
           THEN <<[heading |-> <<>>,
                   keys |-> NonEmpty([i \in 1..Len(kids) |->
                                        IF \A h \in heads : i < h
                                          THEN KeyOfNode(v, kids[i]) ELSE <<>>])]>>
           ELSE <<>>)
        \o [k \in 1..Cardinality(heads) |->
              The({ [heading |-> CleanText(kids[h].text),
                     keys |-> NonEmpty([i \in 1..Len(kids) |->
                                          IF /\ h < i
                                             /\ \A g \in heads : g <= h \/ i < g
                                            THEN KeyOfNode(v, kids[i]) ELSE <<>>])]
                    : h \in {g \in heads :
                               Cardinality({f \in heads : f <= g}) = k} })]
        : heads \in {{i \in 1..Len(kids) : IsHeadingTag(kids[i].tag)}} })

\* the sections returned, as headings and keys
AsKeys(sections) ==
  [s \in 1..Len(sections) |->
     [heading |-> sections[s].heading,
      keys |-> [b \in 1..Len(sections[s].content) |->
                  KeyOfBlock(sections[s].content[b])]]]

\* a is b with some elements left out
RECURSIVE IsSubsequence(_, _)
IsSubsequence(a, b) ==
  IF a = <<>> THEN TRUE
  ELSE IF b = <<>> THEN FALSE
  ELSE IF a[1] = b[1] THEN IsSubsequence(Tail(a), Tail(b))
  ELSE IsSubsequence(a, Tail(b))

\* the texts of the paragraph and list nodes of the body, in document order
TextsOfBody(v, body) ==
  The({ NonEmpty([i \in 1..Len(nodes) |-> TextOfNode(v, nodes[i])])
        : nodes \in {Css(body, LAMBDA e :
                           ~Inside(e, LAMBDA a :
                                        \/ Get(a.role) = <<"l", "i", "s", "t">>
                                        \/ a.tag = TagFigure))} })

\* the text blocks of the sections, in list order, are texts of the body in
\* document order
TextBlocksInOrder ==
  \A body \in {ArticleBody[i] : i \in 1..Len(ArticleBody)} :
    IsSubsequence(
      The({ [i \in 1..Len(texts) |-> texts[i].text]
            : texts \in {SelectSeq(BlocksOf(exPaper.discovered),
                                   LAMBDA b : b.kind = "text")} }),
      TextsOfBody(exVariant, body))

\* a body walked from heading to heading gives the sections of its walk in
\* document order, the leading content in an unlabeled section
FlatWalkInOrder ==
  \A body \in {ArticleBody[i] : i \in 1..Len(ArticleBody)} :
    FlatBody(body) =>
      AsKeys(exPaper.discovered) = InDocumentOrder(exVariant, body.kids)

\* C26: for both variants and both discovery strategies the returned sections
\* and their content are in document order: the content lists, section after
\* section, give the blocks in the order of their nodes, each block lies in
\* the section whose heading most recently precedes its node, and content
\* that precedes the first heading is kept in an unlabeled leading section.
C26_DocumentOrder ==
  exState = "returned" => TextBlocksInOrder /\ FlatWalkInOrder

\* what holds instead: a body walked from heading to heading that begins with
\* a heading gives the sections of its walk in document order
FlatWalkInOrderAfterHeading ==
  (/\ exState = "returned"
   /\ \A body \in {ArticleBody[i] : i \in 1..Len(ArticleBody)} :
        body.kids # <<>> /\ IsHeadingTag(body.kids[1].tag))
    => FlatWalkInOrder

----------------------------------------------------------------------------
(* A cookie file handed from one session to the next: base.py _save_cookies, *)
(* then the cookie load of _browser_tab                                      *)

\* sameSite values of a browser cookie (CDP Network.Cookie); SsAbsent stands for
\* a cookie without the attribute
CdpSameSiteValues == {SsAbsent, SsTitle, SsStrictTitle, SsNone}

\* expires of a browser cookie: -1 for a session cookie, else epoch seconds
CdpExpiresValues == {-1, 1900}

\* a cookie as tab.get_cookies() returns it
BrowserCookie(n, sameSite, exp) ==
  [f \in {"name", "value", "domain", "path", "expires", "httpOnly", "secure",
          "session"}
           \cup (IF sameSite # SsAbsent THEN {"sameSite"} ELSE {}) |->
     CASE f = "name" -> n
       [] f = "value" -> "tok"
       [] f = "domain" -> ".gmu.edu"
       [] f = "path" -> "/"
       [] f = "expires" -> exp
       [] f = "httpOnly" -> TRUE
       [] f = "secure" -> TRUE
       [] f = "session" -> (exp = -1)
       [] f = "sameSite" -> sameSite]

BrowserCookies ==
  {BrowserCookie(n, v, e) : n \in {"ezproxy", "sid"}, v \in CdpSameSiteValues,
                            e \in CdpExpiresValues}

RoundTripInit ==
  /\ SessIdle /\ DlIdle /\ PxIdle /\ CkIdle /\ ExIdle /\ DoiIdle /\ RsIdle /\ GsIdle /\ CliIdle /\ MdIdle
  /\ rtJar \in SeqsUpTo(BrowserCookies, MaxCookies)
  /\ rtFile \in {FileAbsent, FileJson(<<RawLax>>)}
  /\ rtWritten = FALSE
  /\ rtLoaded = <<>>
  /\ rtState = "open"

\* the first session ends: _browser_tab's finally calls _save_cookies
WriteBack ==
  /\ rtState = "open"
  /\ \E out \in SaveOutcomes :
       /\ rtFile' = SaveCookies(rtJar, rtFile, out)
       /\ rtWritten' = (out = "ok" /\ rtJar # <<>>)
  /\ rtState' = "closed"
  /\ UNCHANGED <<rtJar, rtLoaded>>
  /\ UNCHANGED <<sessVars, dlVars, pxVars, ckVars, exVars, doiVars, rsVars, gsVars, cliVars, mdVars>>

\* the next session starts: the cookie load of _browser_tab
ReadBack ==
  /\ rtState = "closed"
  /\ IF rtFile.kind = "absent"
       THEN /\ rtState' = "loaded"
            /\ rtLoaded' = <<>>
       ELSE IF rtFile.kind \in {"unreadable", "malformed"} \/ ConvertRaises(rtFile.data)
         THEN /\ rtState' = "raised"
              /\ rtLoaded' = <<>>
         ELSE \E setOk \in BOOLEAN :
                \E cdp \in {ConvertCookiesForCdp(rtFile.data)} :
                  IF cdp # <<>> /\ ~setOk
                    THEN /\ rtState' = "raised"
                         /\ rtLoaded' = <<>>
                    ELSE /\ rtState' = "loaded"
                         /\ rtLoaded' = cdp
  /\ UNCHANGED <<rtJar, rtFile, rtWritten>>
  /\ UNCHANGED <<sessVars, dlVars, pxVars, ckVars, exVars, doiVars, rsVars, gsVars, cliVars, mdVars>>

RoundTripNext == WriteBack \/ ReadBack

RoundTripSpec == RoundTripInit /\ [][RoundTripNext]_vars

\* the expiry a cookie record stands for: none (-1) for a session cookie
ExpiryOf(c) == IF "expires" \in DOMAIN c THEN c["expires"] ELSE -1

\* the sameSite a cookie record carries
SameSiteOf(c) == IF "sameSite" \in DOMAIN c THEN c["sameSite"] ELSE SsAbsent

\* the loaded record carries what the browser cookie held
SameCookie(loaded, held) ==
  /\ \A f \in {"name", "value", "domain", "path", "secure", "httpOnly"} :
       f \in DOMAIN loaded /\ loaded[f] = held[f]
  /\ ExpiryOf(loaded) = ExpiryOf(held)
  /\ SameSiteOf(loaded) = SameSiteOf(held)

\* C12 (as claimed): a cookie file written back by one session, read by the next
\* session, loads one cookie per cookie the browser held at the write, each
\* with the same name, value, domain, path, secure, httpOnly, expiry and
\* sameSite.
C12_WrittenCookiesReload ==
  (rtState = "loaded" /\ rtWritten) =>
    /\ Len(rtLoaded) = Len(rtJar)
    /\ \A i \in 1..Len(rtJar) : SameCookie(rtLoaded[i], rtJar[i])

----------------------------------------------------------------------------
(* DOI resolution: doi_resolver.py *)

\* the first position from i on whose character is not in cs, or Len(s) + 1
NextNot(s, i, cs) ==
  LET hits == {j \in i..Len(s) : s[j] \notin cs}
  IN  IF hits = {} THEN Len(s) + 1 ELSE CHOOSE j \in hits : \A k \in hits : j <= k

\* the first position from i on whose character is in cs, or Len(s) + 1
NextIn(s, i, cs) ==
  LET hits == {j \in i..Len(s) : s[j] \in cs}
  IN  IF hits = {} THEN Len(s) + 1 ELSE CHOOSE j \in hits : \A k \in hits : j <= k

\* the last position whose character is not in cs, or 0
LastNot(s, cs) ==
  LET hits == {j \in 1..Len(s) : s[j] \notin cs}
  IN  IF hits = {} THEN 0 ELSE CHOOSE j \in hits : \A k \in hits : k <= j

\* str.strip()
Strip(s) == SubSeq(s, NextNot(s, 1, Whitespace), LastNot(s, Whitespace))

\* str.rstrip(chars)
RStrip(s, chars) == SubSeq(s, 1, LastNot(s, chars))

\* DOI_PATTERN, (10\.\d{4,9}/[^\s]+), tried at position i of s: "10.", a run of
\* 4 to 9 digits that a "/" ends, and at least one character that is no
\* whitespace
DoiPatternMatchesAt(s, i) ==
  /\ i + 2 <= Len(s)
  /\ SubSeq(s, i, i + 2) = <<"1", "0", ".">>
  /\ \E e \in {NextNot(s, i + 3, Digits)} :
       /\ e - (i + 3) >= 4
       /\ e - (i + 3) <= 9
       /\ e + 1 <= Len(s)
       /\ s[e] = "/"
       /\ s[e + 1] \notin Whitespace

\* the last position of the match that starts at i: [^\s]+ is greedy
DoiPatternMatchEnd(s, i) ==
  NextIn(s, NextNot(s, i + 3, Digits) + 1, Whitespace) - 1

\* DOI_PATTERN.search(s): the leftmost match, <<>> for None
DoiPatternSearch(s) ==
  LET starts == {i \in 1..Len(s) : DoiPatternMatchesAt(s, i)}
  IN  IF starts = {} THEN <<>>
      ELSE The({ SubSeq(s, i, DoiPatternMatchEnd(s, i))
                 : i \in {CHOOSE i \in starts : \A j \in starts : i <= j} })

\* the characters extract_doi strips from the end of the match
DoiTrailing == {".", ",", ";", ":", ")"}

\* extract_doi
ExtractDoiMutNoStrip(input_str) ==
  The({ IF m = <<>>
          THEN [raised |-> TRUE, err |-> "ValueError", doi |-> <<>>]
          ELSE [raised |-> FALSE, err |-> "none", doi |-> m]
        : m \in {DoiPatternSearch(Strip(input_str))} })

ExtractDoi(input_str) ==
  The({ IF m = <<>>
          THEN [raised |-> TRUE, err |-> "ValueError", doi |-> <<>>]
          ELSE [raised |-> FALSE, err |-> "none", doi |-> RStrip(m, DoiTrailing)]
        : m \in {DoiPatternSearch(Strip(input_str))} })

IdAcm == <<"a", "c", "m">>
IdIeee == <<"i", "e", "e", "e">>
IdSpringer == <<"s", "p", "r", "i", "n", "g", "e", "r">>
IdElsevier == <<"e", "l", "s", "e", "v", "i", "e", "r">>
IdNature == <<"n", "a", "t", "u", "r", "e">>
IdScience == <<"s", "c", "i", "e", "n", "c", "e">>
IdArxiv == <<"a", "r", "x", "i", "v">>

\* PREFIX_TO_PUBLISHER, in the order of the dict
PREFIX_TO_PUBLISHER ==
  << [key |-> <<"1", "0", ".", "1", "1", "4", "5">>, publisher |-> IdAcm],
     [key |-> <<"1", "0", ".", "1", "1", "0", "9">>, publisher |-> IdIeee],
     [key |-> <<"1", "0", ".", "1", "0", "0", "7">>, publisher |-> IdSpringer],
     [key |-> <<"1", "0", ".", "1", "0", "1", "6">>, publisher |-> IdElsevier],
     [key |-> <<"1", "0", ".", "1", "0", "3", "8">>, publisher |-> IdNature],
     [key |-> <<"1", "0", ".", "1", "1", "2", "6">>, publisher |-> IdScience] >>

\* DOMAIN_TO_PUBLISHER, in the order of the dict
DOMAIN_TO_PUBLISHER ==
  << [key |-> <<"d", "l", ".", "a", "c", "m", ".", "o", "r", "g">>, publisher |-> IdAcm],
     [key |-> <<"i", "e", "e", "e", "x", "p", "l", "o", "r", "e", ".", "i", "e", "e", "e", ".", "o", "r", "g">>, publisher |-> IdIeee],
     [key |-> <<"l", "i", "n", "k", ".", "s", "p", "r", "i", "n", "g", "e", "r", ".", "c", "o", "m">>, publisher |-> IdSpringer],
     [key |-> <<"s", "c", "i", "e", "n", "c", "e", "d", "i", "r", "e", "c", "t", ".", "c", "o", "m">>, publisher |-> IdElsevier],
     [key |-> <<"n", "a", "t", "u", "r", "e", ".", "c", "o", "m">>, publisher |-> IdNature],
     [key |-> <<"s", "c", "i", "e", "n", "c", "e", ".", "o", "r", "g">>, publisher |-> IdScience],
     [key |-> <<"a", "r", "x", "i", "v", ".", "o", "r", "g">>, publisher |-> IdArxiv] >>

\* None, where a publisher is expected; `if not publisher` takes it like ""
NoPublisher == <<>>

\* the publisher of the first entry of a table whose key passes the test
FirstPublisher(table, hits) ==
  IF hits = {} THEN NoPublisher
  ELSE table[CHOOSE i \in hits : \A j \in hits : i <= j].publisher

\* _detect_publisher_from_prefix
DetectPublisherFromPrefix(doi) ==
  FirstPublisher(PREFIX_TO_PUBLISHER,
                 {i \in 1..Len(PREFIX_TO_PUBLISHER) :
                    StartsWith(doi, PREFIX_TO_PUBLISHER[i].key)})

\* str.removeprefix
RemovePrefix(s, p) == IF StartsWith(s, p) THEN From(s, Len(p) + 1) ELSE s

\* _detect_publisher_from_url
DetectPublisherFromUrl(url) ==
  The({ FirstPublisher(DOMAIN_TO_PUBLISHER,
                       {i \in 1..Len(DOMAIN_TO_PUBLISHER) :
                          Contains(domain, DOMAIN_TO_PUBLISHER[i].key)})
        : domain \in {RemovePrefix(Lower(UrlParse(url).netloc), <<"w", "w", "w", ".">>)} })

\* what the handle lookup of doi.org can do: answer with values (url is the
\* first value of type URL, <<>> when there is none), fail with an
\* httpx.HTTPError, or answer with what resp.json() or value["data"]["value"]
\* cannot read
ApiValues(url) == [kind |-> "values", url |-> url]
ApiHttpError == [kind |-> "http_error", url |-> <<>>]
ApiUnreadable == [kind |-> "unreadable", url |-> <<>>]

\* what following the redirect of doi.org can do: end at a URL or fail with an
\* httpx.HTTPError
RedirectTo(url) == [kind |-> "url", url |-> url]
RedirectHttpError == [kind |-> "http_error", url |-> <<>>]

\* the results of resolve_doi
Resolved(doi, publisher, url, consulted) ==
  [state |-> "returned", err |-> "none", doi |-> doi, publisher |-> publisher,
   url |-> url, domainConsulted |-> consulted]

ResolveRaises(e, doi, consulted) ==
  [state |-> "raised", err |-> e, doi |-> doi, publisher |-> NoPublisher,
   url |-> <<>>, domainConsulted |-> consulted]

\* `if not publisher: publisher = _detect_publisher_from_url(resolved_url)`
PublisherOfMutDomainFirst(fromPrefix, resolved_url) ==
  IF DetectPublisherFromUrl(resolved_url) # NoPublisher
    THEN DetectPublisherFromUrl(resolved_url)
    ELSE fromPrefix

PublisherOf(fromPrefix, resolved_url) ==
  IF fromPrefix = NoPublisher
    THEN DetectPublisherFromUrl(resolved_url)
    ELSE fromPrefix

\* resolve_doi once the DOI is extracted and the URL resolved
ResolvePublisher(doi, fromPrefix, resolved_url) ==
  The({ IF publisher = NoPublisher
          THEN ResolveRaises("ValueError: no publisher", doi, fromPrefix = NoPublisher)
          ELSE Resolved(doi, publisher, resolved_url, fromPrefix = NoPublisher)
        : publisher \in {PublisherOf(fromPrefix, resolved_url)} })

\* resolve_doi, given what the two requests to doi.org do
ResolveDoi(input_str, api, redirect) ==
  The({ IF e.raised THEN ResolveRaises("ValueError: no DOI", <<>>, FALSE)
        ELSE IF api.kind = "unreadable"
          THEN ResolveRaises("Exception", e.doi, FALSE)
        ELSE IF api.kind = "values" /\ api.url # <<>>
          THEN ResolvePublisher(e.doi, DetectPublisherFromPrefix(e.doi), api.url)
        ELSE IF redirect.kind = "http_error"
          THEN ResolveRaises("HTTPError", e.doi, FALSE)
        ELSE ResolvePublisher(e.doi, DetectPublisherFromPrefix(e.doi), redirect.url)
        : e \in {ExtractDoi(input_str)} })

----------------------------------------------------------------------------
(* extract_doi applied to an input string *)

\* what precedes "10." in an input
DoiLeads == {<<>>, <<"h", "t", "t", "p", "s", ":", "/", "/", "d", "o", "i", ".", "o", "r", "g", "/">>, <<" ", "s", "e", "e", " ">>, <<"1">>, <<"1", "0", ".">>}

\* the digits after "10."
DoiRegistrants ==
  {<<"1", "2", "3">>, <<"1", "1", "4", "5">>, <<"1", "1", "0", "9">>, <<"1", "2", "3", "4", "5", "6", "7", "8", "9">>, <<"1", "2", "3", "4", "5", "6", "7", "8", "9", "0">>}

\* what follows the digits
DoiSeparators == {<<"/">>, <<>>}

\* what follows the separator
DoiSuffixes ==
  {<<>>, <<"x">>, <<"3", "7", "4", "6", ".", "7", "6", "0", "3">>, <<"x", ")", ".">>, <<".", ".", ".">>, <<"a", " ", "b">>, <<" ", "x">>}

\* what ends the input
DoiTails == {<<>>, <<" ", "1", "0", ".", "1", "1", "0", "9", "/", "y">>, <<"\n">>}

MakeDoiInput(lead, registrant, sep, suffix, tail) ==
  lead \o <<"1", "0", ".">> \o registrant \o sep \o suffix \o tail

\* the strings extract_doi is given
DoiInputs ==
  {MakeDoiInput(l, r, p, x, t) : l \in DoiLeads, r \in DoiRegistrants,
                                 p \in DoiSeparators, x \in DoiSuffixes,
                                 t \in DoiTails}
    \cup {<<>>, <<"h", "e", "l", "l", "o">>, <<"1", "0", "/", "1", "2", "3", "4">>}

DoiInit ==
  /\ SessIdle /\ DlIdle /\ PxIdle /\ CkIdle /\ ExIdle /\ RtIdle /\ RsIdle /\ GsIdle /\ CliIdle /\ MdIdle
  /\ doiIn \in DoiInputs
  /\ doiOut = <<>>
  /\ doiState = "input"
  /\ doiAgain = <<>>

CallExtractDoi ==
  /\ doiState = "input"
  /\ \E r \in {ExtractDoi(doiIn)} :
       /\ doiState' = IF r.raised THEN "raised" ELSE "returned"
       /\ doiOut' = r.doi
  /\ UNCHANGED <<doiIn, doiAgain>>
  /\ UNCHANGED <<sessVars, dlVars, pxVars, ckVars, exVars, rtVars, rsVars, gsVars, cliVars, mdVars>>

\* extract_doi applied to the DOI the first call returned
ReExtractDoi ==
  /\ doiState = "returned"
  /\ doiAgain = <<>>
  /\ doiAgain' = ExtractDoi(doiOut)
  /\ UNCHANGED <<doiIn, doiOut, doiState>>
  /\ UNCHANGED <<sessVars, dlVars, pxVars, ckVars, exVars, rtVars, rsVars, gsVars, cliVars, mdVars>>

DoiNext == CallExtractDoi \/ ReExtractDoi

DoiSpec == DoiInit /\ [][DoiNext]_vars

\* t reads 10.<4-9 digits>/<token>, the token non-empty and free of whitespace
IsDoiShaped(t) ==
  /\ Len(t) >= 9
  /\ SubSeq(t, 1, 3) = <<"1", "0", ".">>
  /\ \E d \in 4..9 :
       /\ Len(t) >= d + 5
       /\ \A k \in 4..(d + 3) : t[k] \in Digits
       /\ t[d + 4] = "/"
       /\ \A k \in (d + 5)..Len(t) : t[k] \notin Whitespace

\* the substrings of s of that shape, by first and last position
DoiShaped(s) ==
  {ij \in (1..Len(s)) \X (1..Len(s)) :
     ij[1] <= ij[2] /\ IsDoiShaped(SubSeq(s, ij[1], ij[2]))}

\* the first and longest of them
FirstLongest(shaped) ==
  CHOOSE ij \in shaped :
    \A kl \in shaped : ij[1] < kl[1] \/ (ij[1] = kl[1] /\ ij[2] >= kl[2])

\* t ends with none of . , ; : )
NoTrailing(t) == t = <<>> \/ t[Len(t)] \notin DoiTrailing

C25_ExtractDoiIdempotent ==
  /\ doiState = "returned" => IsDoiShaped(doiOut)
  /\ doiAgain # <<>> => ~doiAgain.raised /\ doiAgain.doi = doiOut

\* what holds instead: a returned DOI that kept a character after its slash
\* is of that shape and is returned again; one whose whole suffix was made of
\* the characters .,;:) ends with the slash and is refused the second time
ExtractDoiIdempotentOnKeptSuffix ==
  /\ doiState = "returned" =>
        \/ IsDoiShaped(doiOut)
        \/ doiOut[Len(doiOut)] = "/"
  /\ doiAgain # <<>> =>
        IF IsDoiShaped(doiOut)
          THEN ~doiAgain.raised /\ doiAgain.doi = doiOut
          ELSE doiAgain.raised

----------------------------------------------------------------------------
(* resolve_doi applied to an input string, the two requests answered *)

DoiAcm == <<"1", "0", ".", "1", "1", "4", "5", "/", "3", "7", "4", "6", ".", "7", "6", "0", "3">>
DoiIeee == <<"1", "0", ".", "1", "1", "0", "9", "/", "x">>
DoiAcmLong == <<"1", "0", ".", "1", "1", "4", "5", "0", "/", "x">>
DoiSpringer == <<"1", "0", ".", "1", "0", "0", "7", "/", "x">>
DoiArxiv == <<"1", "0", ".", "4", "8", "5", "5", "0", "/", "a", "r", "X", "i", "v", ".", "1">>
DoiOther == <<"1", "0", ".", "9", "9", "9", "9", "/", "x">>

\* the strings resolve_doi is given
ResolveInputs ==
  {DoiAcm, DoiIeee, DoiAcmLong, DoiSpringer, DoiArxiv, DoiOther,
   <<"h", "t", "t", "p", "s", ":", "/", "/", "d", "o", "i", ".", "o", "r", "g", "/">> \o DoiAcm, <<"s", "e", "e", " ", "1", "0", ".", "1", "1", "0", "9", "/", "x", ".">>, <<"h", "e", "l", "l", "o">>}

UrlAtAcm == <<"h", "t", "t", "p", "s", ":", "/", "/", "d", "l", ".", "a", "c", "m", ".", "o", "r", "g", "/", "d", "o", "i", "/", "1", "0", ".", "1", "/", "x">>
UrlAtIeee == <<"h", "t", "t", "p", "s", ":", "/", "/", "i", "e", "e", "e", "x", "p", "l", "o", "r", "e", ".", "i", "e", "e", "e", ".", "o", "r", "g", "/", "d", "o", "c", "u", "m", "e", "n", "t", "/", "1">>
UrlAtNature == <<"h", "t", "t", "p", "s", ":", "/", "/", "W", "W", "W", ".", "N", "a", "t", "u", "r", "e", ".", "c", "o", "m", "/", "a", "r", "t", "i", "c", "l", "e", "s", "/", "x">>
UrlAtArxiv == <<"h", "t", "t", "p", "s", ":", "/", "/", "a", "r", "x", "i", "v", ".", "o", "r", "g", "/", "a", "b", "s", "/", "1">>
UrlElsewhere == <<"h", "t", "t", "p", "s", ":", "/", "/", "e", "x", "a", "m", "p", "l", "e", ".", "o", "r", "g", "/", "d", "l", ".", "a", "c", "m", ".", "o", "r", "g">>
UrlNoNetloc == <<"n", "o", "t", " ", "a", " ", "u", "r", "l">>

\* the URLs doi.org answers with
ResolvedUrls == {UrlAtAcm, UrlAtIeee, UrlAtNature, UrlAtArxiv, UrlElsewhere, UrlNoNetloc}

ApiOutcomes ==
  {ApiValues(u) : u \in ResolvedUrls \cup {<<>>}} \cup {ApiHttpError, ApiUnreadable}

RedirectOutcomes == {RedirectTo(u) : u \in ResolvedUrls} \cup {RedirectHttpError}

ResolveInit ==
  /\ SessIdle /\ DlIdle /\ PxIdle /\ CkIdle /\ ExIdle /\ RtIdle /\ DoiIdle /\ GsIdle /\ CliIdle /\ MdIdle
  /\ rsIn \in ResolveInputs
  /\ rsApi \in ApiOutcomes
  /\ rsRedirect \in RedirectOutcomes
  /\ rsOut = <<>>
  /\ rsState = "input"

CallResolveDoi ==
  /\ rsState = "input"
  /\ \E r \in {ResolveDoi(rsIn, rsApi, rsRedirect)} :
       /\ rsState' = r.state
       /\ rsOut' = r
  /\ UNCHANGED <<rsIn, rsApi, rsRedirect>>
  /\ UNCHANGED <<sessVars, dlVars, pxVars, ckVars, exVars, rtVars, doiVars, gsVars, cliVars, mdVars>>

ResolveNext == CallResolveDoi

ResolveSpec == ResolveInit /\ [][ResolveNext]_vars

\* the URL the call went by: the lookup's, else the redirect's
UrlUsed == IF rsApi.kind = "values" /\ rsApi.url # <<>> THEN rsApi.url ELSE rsRedirect.url

\* the prefix table has an entry for the DOI
PrefixKnown(doi) ==
  \E i \in 1..Len(PREFIX_TO_PUBLISHER) : StartsWith(doi, PREFIX_TO_PUBLISHER[i].key)

\* the domain table has an entry for the host of the URL
DomainKnown(url) ==
  \E i \in 1..Len(DOMAIN_TO_PUBLISHER) :
    Contains(Lower(UrlParse(url).netloc), DOMAIN_TO_PUBLISHER[i].key)

\* C16: when resolve_doi returns, a DOI with prefix 10.1145/ has publisher acm
\* and a DOI with prefix 10.1109/ has publisher ieee, whatever URL the lookup
\* or the redirect gave; the domain table is consulted only when the prefix
\* table has no entry for the DOI; and the error about an undetermined
\* publisher is raised only when neither table has an entry. (A request that
\* fails twice, or an unreadable answer, ends the call with that exception.)
C16_PrefixDecidesPublisher ==
  /\ rsState = "returned" =>
       /\ StartsWith(rsOut.doi, <<"1", "0", ".", "1", "1", "4", "5", "/">>) => rsOut.publisher = IdAcm
       /\ StartsWith(rsOut.doi, <<"1", "0", ".", "1", "1", "0", "9", "/">>) => rsOut.publisher = IdIeee
       /\ rsOut.publisher # NoPublisher
       /\ rsOut.url = UrlUsed
  /\ rsState \in {"returned", "raised"} =>
       /\ rsOut.domainConsulted => ~PrefixKnown(rsOut.doi)
       /\ rsOut.err = "ValueError: no publisher"
            => ~PrefixKnown(rsOut.doi) /\ ~DomainKnown(UrlUsed)
       /\ rsOut.err = "ValueError: no DOI" => DoiShaped(rsIn) = {}

\* an ACM DOI whose lookup answered with a URL at IEEE came out as acm, the
\* domain table not consulted
C16_Witness ==
  /\ rsState = "returned"
  /\ rsIn = DoiAcm
  /\ rsApi = ApiValues(UrlAtIeee)
  /\ rsOut.publisher = IdAcm
  /\ rsOut.url = UrlAtIeee
  /\ ~rsOut.domainConsulted

----------------------------------------------------------------------------
(* Scraper selection: scrapers/__init__.py get_scraper, cli.py step 2 *)

\* the keys of get_scraper's `scrapers` dict, in its order
ScraperKeys == <<IdAcm, IdIeee>>

\* the place of a lower-case letter in the alphabet
LetterRank(c) ==
  CHOOSE r \in 1..26 : <<"a", "b", "c", "d", "e", "f", "g", "h", "i", "j", "k", "l", "m", "n", "o", "p", "q", "r", "s", "t", "u", "v", "w", "x", "y", "z">>[r] = c

\* a < b for two lower-case words, as str compares them
WordLess(a, b) ==
  \E k \in 1..(Len(a) + 1) :
    /\ k <= Len(b)
    /\ \A j \in 1..(k - 1) : a[j] = b[j]
    /\ k = Len(a) + 1 \/ LetterRank(a[k]) < LetterRank(b[k])

\* sorted(keys), the keys distinct
Sorted(keys) ==
  CHOOSE q \in [1..Len(keys) -> {keys[i] : i \in 1..Len(keys)}] :
    \A i, j \in 1..Len(keys) : i < j => WordLess(q[i], q[j])

\* the message of get_scraper's ValueError
NoScraperMessage(publisher) ==
  <<"N", "o", " ", "s", "c", "r", "a", "p", "e", "r", " ", "a", "v", "a", "i", "l", "a", "b", "l", "e", " ", "f", "o", "r", " ", "p", "u", "b", "l", "i", "s", "h", "e", "r", " ", "'">> \o publisher
    \o <<"'", ".", " ", "S", "u", "p", "p", "o", "r", "t", "e", "d", " ", "p", "u", "b", "l", "i", "s", "h", "e", "r", "s", ":", " ">> \o Join(Sorted(ScraperKeys), <<",", " ">>)

\* get_scraper
GetScraperMutNoLower(publisher) ==
  IF \E i \in 1..Len(ScraperKeys) : ScraperKeys[i] = publisher
    THEN [raised |-> FALSE, scraper |-> publisher, message |-> <<>>]
    ELSE [raised |-> TRUE, scraper |-> <<>>, message |-> NoScraperMessage(publisher)]

GetScraper(publisher) ==
  IF \E i \in 1..Len(ScraperKeys) : ScraperKeys[i] = Lower(publisher)
    THEN [raised |-> FALSE, scraper |-> Lower(publisher), message |-> <<>>]
    ELSE [raised |-> TRUE, scraper |-> <<>>, message |-> NoScraperMessage(publisher)]

\* the spellings of a lower-case word in every mix of letter case
UpperChar(c) ==
  IF c \in Letters
    THEN <<"A", "B", "C", "D", "E", "F", "G", "H", "I", "J", "K", "L", "M", "N", "O", "P", "Q", "R", "S", "T", "U", "V", "W", "X", "Y", "Z">>[LetterRank(c)]
    ELSE c

CaseVariants(w) ==
  {[i \in 1..Len(w) |-> IF up[i] THEN UpperChar(w[i]) ELSE w[i]]
     : up \in [1..Len(w) -> BOOLEAN]}

\* the identifiers get_scraper is given: the two it knows and the others the
\* DOI resolver can return, in every letter case, and some near misses
PublisherIds ==
  CaseVariants(IdAcm) \cup CaseVariants(IdIeee) \cup CaseVariants(IdArxiv)
    \cup {IdSpringer, IdElsevier, IdNature, IdScience, <<>>, <<"a", "c">>, <<"a", "c", "m", " ">>,
          <<" ", "i", "e", "e", "e">>, <<"a", "c", "m", "x">>, <<"i", "e", "e", "e", ".", "o", "r", "g">>, <<"I", "E", "E", "E", " ", "X", "p", "l", "o", "r", "e">>}

SelectInit ==
  /\ SessIdle /\ DlIdle /\ PxIdle /\ CkIdle /\ ExIdle /\ RtIdle /\ DoiIdle /\ RsIdle /\ CliIdle /\ MdIdle
  /\ gsPublisher \in PublisherIds
  /\ gsOut = <<>>
  /\ gsExit = -1
  /\ gsState = "input"

\* cli.py step 2: try: scraper = get_scraper(resolved.publisher); except
\* ValueError: the message is printed and SystemExit(1) raised
SelectScraper ==
  /\ gsState = "input"
  /\ \E r \in {GetScraper(gsPublisher)} :
       /\ gsOut' = r
       /\ IF r.raised
            THEN /\ gsState' = "exited"
                 /\ gsExit' = 1
            ELSE /\ gsState' = "selected"
                 /\ gsExit' = gsExit
  /\ UNCHANGED gsPublisher
  /\ UNCHANGED <<sessVars, dlVars, pxVars, ckVars, exVars, rtVars, doiVars, rsVars, cliVars, mdVars>>

SelectNext == SelectScraper

SelectSpec == SelectInit /\ [][SelectNext]_vars

\* v spells the lower-case word w in some mix of letter case
IsCaseVariant(v, w) ==
  /\ Len(v) = Len(w)
  /\ \A i \in 1..Len(w) : v[i] = w[i] \/ v[i] = UpperChar(w[i])

\* C14: get_scraper returns the ACM scraper for every letter-case spelling of
\* acm and the IEEE scraper for every spelling of ieee; for every other
\* identifier it raises the error whose message lists the supported
\* identifiers, and the command ends with exit code 1 instead of crashing.
C14_CaseInsensitiveLookup ==
  gsState # "input" =>
    IF IsCaseVariant(gsPublisher, IdAcm)
      THEN gsState = "selected" /\ gsOut.scraper = IdAcm /\ gsExit = -1
    ELSE IF IsCaseVariant(gsPublisher, IdIeee)
      THEN gsState = "selected" /\ gsOut.scraper = IdIeee /\ gsExit = -1
    ELSE /\ gsState = "exited"
         /\ gsExit = 1
         /\ gsOut.raised
         /\ Contains(gsOut.message, <<"S", "u", "p", "p", "o", "r", "t", "e", "d", " ", "p", "u", "b", "l", "i", "s", "h", "e", "r", "s", ":", " ", "a", "c", "m", ",", " ", "i", "e", "e", "e">>)
         /\ Contains(gsOut.message, gsPublisher)

\* IeEe selected the IEEE scraper
C14_Witness ==
  /\ gsState = "selected"
  /\ gsPublisher = <<"I", "e", "E", "e">>
  /\ gsOut.scraper = IdIeee

\* springer, which the DOI resolver returns for 10.1007, ended the command with
\* exit code 1 and the list of supported identifiers
C14_WitnessUnsupported ==
  /\ gsState = "exited"
  /\ gsPublisher = IdSpringer
  /\ gsExit = 1
  /\ Contains(gsOut.message, <<"a", "c", "m", ",", " ", "i", "e", "e", "e">>)

----------------------------------------------------------------------------
(* The command: cli.py main *)

\* the parameters the scrape method of each scraper declares
ScrapeParams(scraper) ==
  IF scraper = IdIeee
    THEN {"url", "doi", "output_dir", "cookies_file", "proxy_url"}
    ELSE {"url", "doi", "output_dir", "cookies_file"}

\* the keyword arguments main calls scraper.scrape with
CliScrapeKeywords == {"url", "doi", "output_dir", "cookies_file", "proxy_url"}

CliInit ==
  /\ SessIdle /\ DlIdle /\ PxIdle /\ CkIdle /\ ExIdle /\ RtIdle /\ DoiIdle /\ RsIdle /\ GsIdle /\ MdIdle
  /\ cliInput \in ResolveInputs
  /\ cliStage = "start"
  /\ cliResolved = <<>>
  /\ cliScraper = <<>>
  /\ cliFailed = "none"
  /\ cliExit = -1
  /\ cliBrowser = FALSE
  /\ cliOutput = {}
  /\ cliCall = "none"

\* raise SystemExit(1) in an except clause of main, or an exception that
\* leaves main: the interpreter ends the process with status 1
CliFails(step) ==
  /\ cliStage' = "exited"
  /\ cliFailed' = step
  /\ cliExit' = 1

\* step 1: extract_doi(doi_input), resolve_doi(doi_input); except Exception:
\* SystemExit(1)
CliResolve ==
  /\ cliStage = "start"
  /\ \E api \in ApiOutcomes, redirect \in RedirectOutcomes :
       \E r \in {ResolveDoi(cliInput, api, redirect)} :
         IF ExtractDoi(cliInput).raised \/ r.state = "raised"
           THEN /\ CliFails("resolution")
                /\ UNCHANGED cliResolved
           ELSE /\ cliStage' = "resolved"
                /\ cliResolved' = r
                /\ UNCHANGED <<cliFailed, cliExit>>
  /\ UNCHANGED <<cliInput, cliScraper, cliBrowser, cliOutput, cliCall>>
  /\ UNCHANGED <<sessVars, dlVars, pxVars, ckVars, exVars, rtVars, doiVars, rsVars, gsVars, mdVars>>

\* step 2: get_scraper(resolved.publisher); except ValueError: SystemExit(1)
CliSelect ==
  /\ cliStage = "resolved"
  /\ \E r \in {GetScraper(cliResolved.publisher)} :
       IF r.raised
         THEN /\ CliFails("selection")
              /\ UNCHANGED cliScraper
         ELSE /\ cliStage' = "selected"
              /\ cliScraper' = r.scraper
              /\ UNCHANGED <<cliFailed, cliExit>>
  /\ UNCHANGED <<cliInput, cliResolved, cliBrowser, cliOutput, cliCall>>
  /\ UNCHANGED <<sessVars, dlVars, pxVars, ckVars, exVars, rtVars, doiVars, rsVars, gsVars, mdVars>>

\* step 3: scraper.scrape(url=, doi=, output_dir=, cookies_file=, proxy_url=);
\* except Exception: SystemExit(1). A keyword the method does not declare is a
\* TypeError of the call itself. A scrape opens a browser session, may write
\* figures under output_dir/images, and returns the paper or raises.
CliScrape ==
  /\ cliStage = "selected"
  /\ IF ~(CliScrapeKeywords \subseteq ScrapeParams(cliScraper))
       THEN /\ CliFails("scraping")
            /\ cliCall' = "rejected"
            /\ UNCHANGED <<cliBrowser, cliOutput>>
       ELSE \E launched \in BOOLEAN, images \in BOOLEAN, returns \in BOOLEAN :
              /\ cliCall' = "accepted"
              /\ cliBrowser' = launched
              /\ cliOutput' = IF launched /\ images THEN cliOutput \cup {"images"}
                                                    ELSE cliOutput
              /\ IF launched /\ returns
                   THEN /\ cliStage' = "scraped"
                        /\ UNCHANGED <<cliFailed, cliExit>>
                   ELSE CliFails("scraping")
  /\ UNCHANGED <<cliInput, cliResolved, cliScraper>>
  /\ UNCHANGED <<sessVars, dlVars, pxVars, ckVars, exVars, rtVars, doiVars, rsVars, gsVars, mdVars>>

\* step 4: md_path = save_paper(paper, out), outside every try; then the
\* summary is printed and main returns
CliSave ==
  /\ cliStage = "scraped"
  /\ \E written \in BOOLEAN :
       IF written
         THEN /\ cliOutput' = cliOutput \cup {"markdown"}
              /\ cliStage' = "exited"
              /\ cliExit' = 0
              /\ UNCHANGED cliFailed
         ELSE \* output_dir.mkdir or out_path.write_text raises
              /\ CliFails("save")
              /\ UNCHANGED cliOutput
  /\ UNCHANGED <<cliInput, cliResolved, cliScraper, cliBrowser, cliCall>>
  /\ UNCHANGED <<sessVars, dlVars, pxVars, ckVars, exVars, rtVars, doiVars, rsVars, gsVars, mdVars>>

CliNext == CliResolve \/ CliSelect \/ CliScrape \/ CliSave

CliSpec == CliInit /\ [][CliNext]_vars

\* resolution, selection or scraping raised
StageFailed == cliFailed \in {"resolution", "selection", "scraping"}

\* exit code 1 exactly when one of the three stages raised, 0 in every other run
ExitOneIffStageFailed ==
  cliStage = "exited" =>
    /\ cliExit = 1 <=> StageFailed
    /\ ~StageFailed => cliExit = 0

\* a failed resolution or selection opened no browser session and wrote nothing
InputErrorsLeaveNothing ==
  cliFailed \in {"resolution", "selection"} => ~cliBrowser /\ cliOutput = {}

\* the Markdown file exists only after all three stages succeeded
MarkdownAfterAllStages ==
  "markdown" \in cliOutput =>
    cliFailed = "none" /\ cliResolved # <<>> /\ cliScraper # <<>> /\ cliBrowser

\* C13 (as claimed): the command exits with code 1 exactly when resolution,
\* selection or scraping raised and with code 0 in every other run; a failed
\* resolution or selection opens no browser session and writes no output file;
\* the Markdown file is written only after all three stages succeeded.
C13_ExitCodes ==
  /\ ExitOneIffStageFailed
  /\ InputErrorsLeaveNothing
  /\ MarkdownAfterAllStages

\* C24: for every publisher identifier that selection accepts, the scrape
\* call the command issues (url, doi, output_dir, cookies_file, proxy_url) is
\* accepted by the selected scraper; so a run that selected a scraper and did
\* not end with exit code 0 and a Markdown file failed in the browser session,
\* the extraction or the save, never in the call itself.
C24_ScrapeCallAccepted ==
  /\ cliCall # "rejected"
  /\ (cliStage = "exited" /\ cliScraper # <<>>) =>
       \/ cliExit = 0 /\ "markdown" \in cliOutput
       \/ cliCall = "accepted"

\* what holds instead: the call is accepted exactly by the IEEE scraper; a run
\* that selected the ACM scraper ends with exit code 1, no browser session and
\* no file
AcmCallRejected ==
  cliCall # "none" =>
    /\ cliCall = "accepted" <=> cliScraper = IdIeee
    /\ cliScraper = IdAcm =>
         cliExit = 1 /\ cliFailed = "scraping" /\ ~cliBrowser /\ cliOutput = {}

-----------------------------------------------------------------------------
(* Rendering: markdown_builder.py paper_to_markdown *)

\* str.upper
Upper(s) == [i \in 1..Len(s) |-> UpperChar(s[i])]

\* "#" * n
Hashes(n) == [i \in 1..n |-> "#"]

\* heading_prefix = "#" * min(section.level + 1, 6)
HeadingPrefix(level) == Hashes(IF level + 1 < 6 THEN level + 1 ELSE 6)

\* _render_figure(lines, fig): the lines it appends. Nothing for a figure
\* with neither path; else the image line, the caption line of a figure that
\* has a caption, and a blank line.
RenderFigureMutRemoteFirst(fig) ==
  IF fig.local_path = <<>> /\ fig.url = <<>> THEN <<>>
  ELSE LET path == IF fig.url # <<>> THEN fig.url ELSE fig.local_path
           caption == IF fig.caption # <<>> THEN fig.caption
                      ELSE IF fig.figure_id # <<>> THEN fig.figure_id
                      ELSE <<"F", "i", "g", "u", "r", "e">>
       IN  << <<"!", "[">> \o caption \o <<"]", "(">> \o path \o <<")">> >>
             \o (IF fig.caption # <<>>
                   THEN << <<"*">> \o fig.caption \o <<"*">> >>
                   ELSE <<>>)
             \o << <<>> >>
RenderFigure(fig) ==
  IF fig.local_path = <<>> /\ fig.url = <<>> THEN <<>>
  ELSE LET path == IF fig.local_path # <<>> THEN fig.local_path ELSE fig.url
           caption == IF fig.caption # <<>> THEN fig.caption
                      ELSE IF fig.figure_id # <<>> THEN fig.figure_id
                      ELSE <<"F", "i", "g", "u", "r", "e">>
       IN  << <<"!", "[">> \o caption \o <<"]", "(">> \o path \o <<")">> >>
             \o (IF fig.caption # <<>>
                   THEN << <<"*">> \o fig.caption \o <<"*">> >>
                   ELSE <<>>)
             \o << <<>> >>

\* one turn of "for block in section.content": a Figure through
\* _render_figure, a str as its line and a blank line
RenderBlock(block) ==
  IF block.kind = "figure" THEN RenderFigure(block)
  ELSE IF block.kind = "text" THEN <<block.text, <<>>>>
  ELSE <<>>

\* one turn of "for section in paper.sections": the heading line, a blank
\* line, then the blocks in list order
RenderSection(section) ==
  <<HeadingPrefix(section.level) \o <<" ">> \o section.heading, <<>>>>
    \o Concat([i \in 1..Len(section.content) |->
                 RenderBlock(section.content[i])])

\* the list "lines" of paper_to_markdown at its return
MarkdownLines(paper) ==
  << <<"#", " ">> \o paper.title, <<>> >>
    \o (IF paper.authors # <<>>
          THEN << <<"*", "*", "A", "u", "t", "h", "o", "r", "s", ":", "*", "*", " ">> \o Join(paper.authors, <<",", " ">>), <<>> >>
          ELSE <<>>)
    \o << <<"*", "*", "D", "O", "I", ":", "*", "*", " ", "[">> \o paper.doi \o <<"]", "(", "h", "t", "t", "p", "s", ":", "/", "/", "d", "o", "i", ".", "o", "r", "g", "/">>
            \o paper.doi \o <<")">> >>
    \o (IF paper.publisher # <<>>
          THEN << <<"*", "*", "P", "u", "b", "l", "i", "s", "h", "e", "r", ":", "*", "*", " ">> \o Upper(paper.publisher) >>
          ELSE <<>>)
    \o (IF paper.url # <<>>
          THEN << <<"*", "*", "U", "R", "L", ":", "*", "*", " ", "[">> \o paper.url \o <<"]", "(">> \o paper.url
                    \o <<")">> >>
          ELSE <<>>)
    \o << <<>> >>
    \o (IF paper.keywords # <<>>
          THEN << <<"*", "*", "K", "e", "y", "w", "o", "r", "d", "s", ":", "*", "*", " ">> \o Join(paper.keywords, <<",", " ">>), <<>> >>
          ELSE <<>>)
    \o (IF paper.abstract # <<>>
          THEN << <<"#", "#", " ", "A", "b", "s", "t", "r", "a", "c", "t">>, <<>>, <<">", " ">> \o paper.abstract, <<>> >>
          ELSE <<>>)
    \o Concat([i \in 1..Len(paper.sections) |->
                 RenderSection(paper.sections[i])])

\* return "\n".join(lines)
PaperToMarkdown(paper) == Join(MarkdownLines(paper), <<"\n">>)

\* ---- the papers rendering runs on

\* Paper(doi=doi, publisher=self.publisher_name, url=url) with the title and
\* what extraction filled in
Scraped(doi, title, publisher, url, extracted) ==
  [doi |-> doi, title |-> title, publisher |-> publisher, url |-> url,
   authors |-> extracted.authors, abstract |-> extracted.abstract,
   keywords |-> extracted.keywords, discovered |-> extracted.discovered,
   sections |-> extracted.sections]

RemoteFig == <<"h", "t", "t", "p", ":", "/", "/", "h", "/", "f", ".", "p", "n", "g">>
LocalFig == <<"i", "m", "a", "g", "e", "s", "/", "f", "i", "g", "1", ".", "p", "n", "g">>

\* content blocks: paragraphs, and figures with and without a local copy, a
\* caption and an id; local_path as the text f"images/{filename}"
RenderBlocks ==
  { TextBlock(<<"H", "e", "l", "l", "o", " ", "w", "o", "r", "l", "d">>),
    TextBlock(<<"B", "y", "e">>),
    Figure(RemoteFig, LocalFig, <<"S", "e", "t", "u", "p">>, <<"f", "1">>),
    Figure(RemoteFig, <<>>, <<"S", "e", "t", "u", "p">>, <<>>),
    Figure(RemoteFig, LocalFig, <<>>, <<"f", "1">>),
    Figure(RemoteFig, <<>>, <<>>, <<>>) }

MaxBlocks == 2

RenderLevels == {2, 6}

RenderSections ==
  { Section(<<"I", "n", "t", "r", "o">>, level, content)
    : level \in RenderLevels, content \in SeqsUpTo(RenderBlocks, MaxBlocks) }

\* what section discovery gave: nothing, one section, or that section and a
\* closing one
RenderDiscovered ==
  {<<>>}
    \cup {<<s>> : s \in RenderSections}
    \cup {<<s, Section(<<"E", "n", "d">>, 3, <<TextBlock(<<"B", "y", "e">>)>>)>>
            : s \in RenderSections}

RenderAbstracts == {<<>>, <<"S", "u", "m", ".">>}
RenderAuthors == {<<>>, <<<<"A", "n", "n", " ", "L", "e", "e">>, <<"B", "o", " ", "L", "i">>>>}
RenderKeywords == {<<>>, <<<<"A", "I">>, <<"M", "L">>>>}
RenderUrls == {<<>>, <<"h", "t", "t", "p", ":", "/", "/", "h", "/", "p">>}

RenderPapers ==
  { Scraped(<<"1", "0", ".", "1", "/", "x">>, <<"T">>, IdAcm, url,
            Paper(authors, abstract, keywords, discovered))
    : url \in RenderUrls, authors \in RenderAuthors,
      abstract \in RenderAbstracts, keywords \in RenderKeywords,
      discovered \in RenderDiscovered }

RenderInit ==
  /\ mdPaper \in RenderPapers
  /\ mdState = "ready"
  /\ mdOut = <<>>
  /\ SessIdle /\ DlIdle /\ PxIdle /\ CkIdle /\ ExIdle /\ RtIdle /\ DoiIdle /\ RsIdle /\ GsIdle /\ CliIdle

\* md_content = paper_to_markdown(paper)
RenderPaper ==
  /\ mdState = "ready"
  /\ mdOut' = PaperToMarkdown(mdPaper)
  /\ mdState' = "rendered"
  /\ UNCHANGED mdPaper
  /\ UNCHANGED <<sessVars, dlVars, pxVars, ckVars, exVars, rtVars, doiVars, rsVars, gsVars, cliVars>>

RenderNext == RenderPaper

RenderSpec == RenderInit /\ [][RenderNext]_vars

\* ---- what a reader of the rendered text sees

\* text.split("\n")
Lines(text) ==
  The({ [k \in 1..(Len(cuts) - 1) |->
           SubSeq(text, cuts[k] + 1, cuts[k + 1] - 1)]
        : cuts \in {<<0>>
                      \o SelectSeq([i \in 1..Len(text) |-> i],
                                   LAMBDA i : text[i] = "\n")
                      \o <<Len(text) + 1>>} })

\* line is a Markdown heading
IsHeading(line) == line # <<>> /\ line[1] = "#"

\* line is a Markdown heading of some rank whose title is title
IsHeadingTitled(line, title) ==
  \E n \in 1..6 : line = Hashes(n) \o <<" ">> \o title

\* the places of the headings titled title
HeadingsTitled(lines, title) ==
  {i \in 1..Len(lines) : IsHeadingTitled(lines[i], title)}

\* the lines under the heading at place i, up to the next heading
LinesUnder(lines, i) ==
  {lines[j] : j \in {k \in (i + 1)..Len(lines) :
                       \A m \in (i + 1)..k : ~IsHeading(lines[m])}}

\* a rendered paper whose extraction discovered no section and found an
\* abstract
FallbackRendered ==
  /\ mdState = "rendered"
  /\ mdPaper.discovered = <<>>
  /\ mdPaper.abstract # <<>>

\* C19: end to end, for a scrape that discovers no section and extracts a
\* non-empty abstract, the rendered document has exactly one section titled
\* "Abstract", and that section contains the abstract text.
C19_OneAbstractSection ==
  FallbackRendered =>
    The({ /\ Cardinality(HeadingsTitled(lines, <<"A", "b", "s", "t", "r", "a", "c", "t">>)) = 1
          /\ \A i \in HeadingsTitled(lines, <<"A", "b", "s", "t", "r", "a", "c", "t">>) :
               \E line \in LinesUnder(lines, i) :
                 EndsWith(line, mdPaper.abstract)
          : lines \in {Lines(mdOut)} })

\* what holds instead: the abstract is rendered under two headings titled
\* "Abstract", the block quote of the abstract itself ("## Abstract") and the
\* synthesized section ("### Abstract"), each followed by the abstract text
FallbackRenderedTwice ==
  FallbackRendered =>
    The({ /\ Cardinality(HeadingsTitled(lines, <<"A", "b", "s", "t", "r", "a", "c", "t">>)) = 2
          /\ \E i, j \in HeadingsTitled(lines, <<"A", "b", "s", "t", "r", "a", "c", "t">>) :
               /\ lines[i] = <<"#", "#", " ", "A", "b", "s", "t", "r", "a", "c", "t">>
               /\ lines[j] = <<"#", "#", "#", " ", "A", "b", "s", "t", "r", "a", "c", "t">>
               /\ i < j
               /\ <<">", " ">> \o mdPaper.abstract \in LinesUnder(lines, i)
               /\ mdPaper.abstract \in LinesUnder(lines, j)
          : lines \in {Lines(mdOut)} })

\* the lines of a text that are not blank
NonBlank(lines) == SelectSeq(lines, LAMBDA line : line # <<>>)

\* the path a figure is shown by: local_path when non-empty, else the URL
ShownPath(fig) == IF fig.local_path # <<>> THEN fig.local_path ELSE fig.url

\* ![alt](path)
ImageReference(alt, path) == <<"!", "[">> \o alt \o <<"]", "(">> \o path \o <<")">>

\* the alternative text of a figure: its caption, the figure id for a figure
\* without caption, the word Figure for one without either
AltText(fig) ==
  IF fig.caption # <<>> THEN fig.caption
  ELSE IF fig.figure_id # <<>> THEN fig.figure_id
  ELSE <<"F", "i", "g", "u", "r", "e">>

\* the lines a block is to be rendered as, alt being the text between the
\* square brackets of a figure's image reference
BlockLines(block, alt) ==
  IF block.kind = "text" THEN <<block.text>>
  ELSE <<ImageReference(alt, ShownPath(block))>>
         \o (IF block.caption # <<>>
               THEN << <<"*">> \o block.caption \o <<"*">> >>
               ELSE <<>>)

\* the non-blank lines of the sections of paper: each heading, then the
\* section's blocks in list order, a figure's alternative text being its
\* caption (captionOnly) or AltText
SectionLines(paper, captionOnly) ==
  Concat([s \in 1..Len(paper.sections) |->
            <<HeadingPrefix(paper.sections[s].level) \o <<" ">>
                \o paper.sections[s].heading>>
              \o Concat([b \in 1..Len(paper.sections[s].content) |->
                           BlockLines(paper.sections[s].content[b],
                                      IF captionOnly
                                        THEN paper.sections[s].content[b].caption
                                        ELSE AltText(paper.sections[s].content[b]))])])

====
